---- MODULE Spec2Model ----
(***************************************************************************)
(* Model of the database health check validation engine:                   *)
(*   ValidationManager (rule resolver), CheckRegistry, ValidationCheck,    *)
(*   PasswordValidationFunctionCheck and OracleHealthCheck.run_all_checks. *)
(***************************************************************************)
EXTENDS Integers, Sequences, FiniteSets, TLC

(***************************************************************************)
(* Bounds of the model                                                     *)
(***************************************************************************)
\* number of instances in the inventory; instance names are 1..MaxDb, so the
\* sorted name order of Inventory.get_database_names is the numeric order
MaxDb == 2
\* largest number of keys of a defaults or overrides mapping the resolver is
\* called on
MaxKeys == 2
\* the fetched numbers and the numeric thresholds ValidationCheck.execute is
\* called with are 0..MaxNum
MaxNum == 3
\* largest number of rows a fetchall() of a path or size query answers with
MaxRows == 4

(***************************************************************************)
(* Python values: a tagged record, kind in none/bool/int/str/list/dict,    *)
(* and float for the quotient of a number of bytes by 1024**3              *)
(***************************************************************************)
\* 1024**3, the divisor of the bytes -> GB transformer
Giga == 1073741824
None == [kind |-> "none", val |-> 0]
BoolV(b) == [kind |-> "bool", val |-> b]
IntV(n) == [kind |-> "int", val |-> n]
StrV(s) == [kind |-> "str", val |-> s]
ListV(l) == [kind |-> "list", val |-> l]
DictV(d) == [kind |-> "dict", val |-> d]
\* the float n / 1024**3
FloatV(n) == [kind |-> "float", val |-> n]

IsNone(v) == v.kind = "none"
IsFalse(v) == v.kind = "bool" /\ v.val = FALSE

\* Python truthiness (bool(v))
Truthy(v) ==
  CASE v.kind = "none" -> FALSE
    [] v.kind = "bool" -> v.val
    [] v.kind = "int" -> v.val # 0
    [] v.kind = "float" -> v.val # 0
    [] v.kind = "str" -> v.val # ""
    [] v.kind = "list" -> Len(v.val) > 0
    [] v.kind = "dict" -> Len(v.val) > 0

(***************************************************************************)
(* Ordered dictionaries (Python dict): sequences of [k, v] with unique k   *)
(***************************************************************************)
Keys(d) == {d[i].k : i \in DOMAIN d}
HasKey(d, key) == key \in Keys(d)
Get(d, key) == d[CHOOSE i \in DOMAIN d : d[i].k = key].v
GetOr(d, key, dflt) == IF HasKey(d, key) THEN Get(d, key) ELSE dflt

\* mutant: an existing key keeps its value (setdefault instead of assignment)
SetItem_keepExisting(d, key, value) ==
  IF HasKey(d, key) THEN d ELSE Append(d, [k |-> key, v |-> value])

\* d[key] = value: an existing key keeps its position, a new key is appended
SetItem(d, key, value) ==
  IF HasKey(d, key)
    THEN [i \in DOMAIN d |-> IF d[i].k = key THEN [k |-> key, v |-> value] ELSE d[i]]
    ELSE Append(d, [k |-> key, v |-> value])

\* d.update(u)
RECURSIVE DictUpdate(_, _)
DictUpdate(d, u) ==
  IF u = <<>> THEN d
  ELSE DictUpdate(SetItem(d, Head(u).k, Head(u).v), Tail(u))

(***************************************************************************)
(* Strings: str(), upper(), strip(), int()                                 *)
(***************************************************************************)
LowerChars == "abcdefghijklmnopqrstuvwxyz"
UpperChars == "ABCDEFGHIJKLMNOPQRSTUVWXYZ"
DigitChars == "0123456789"

CharAt(s, i) == SubSeq(s, i, i)
IsIn(c, chars) == \E i \in 1..Len(chars) : CharAt(chars, i) = c
IndexIn(c, chars) == CHOOSE i \in 1..Len(chars) : CharAt(chars, i) = c

\* str.upper()
UpperChar(c) == IF IsIn(c, LowerChars) THEN CharAt(UpperChars, IndexIn(c, LowerChars)) ELSE c
RECURSIVE Upper(_)
Upper(s) == IF s = "" THEN "" ELSE UpperChar(CharAt(s, 1)) \o Upper(SubSeq(s, 2, Len(s)))

\* str.strip()
RECURSIVE LStrip(_)
LStrip(s) == IF s # "" /\ CharAt(s, 1) = " " THEN LStrip(SubSeq(s, 2, Len(s))) ELSE s
RECURSIVE RStrip(_)
RStrip(s) == IF s # "" /\ CharAt(s, Len(s)) = " " THEN RStrip(SubSeq(s, 1, Len(s) - 1)) ELSE s
Strip(s) == RStrip(LStrip(s))

\* str(n) for an integer
RECURSIVE NatToStr(_)
NatToStr(n) == IF n < 10 THEN CharAt(DigitChars, n + 1)
               ELSE NatToStr(n \div 10) \o CharAt(DigitChars, (n % 10) + 1)
IntToStr(n) == IF n < 0 THEN "-" \o NatToStr(0 - n) ELSE NatToStr(n)

\* int(s): optional surrounding blanks, optional sign, then decimal digits;
\* anything else is a ValueError (ok = FALSE)
AllDigits(s) == s # "" /\ \A i \in 1..Len(s) : IsIn(CharAt(s, i), DigitChars)
RECURSIVE DigitsToNat(_)
DigitsToNat(s) == IF s = "" THEN 0
                  ELSE 10 * DigitsToNat(SubSeq(s, 1, Len(s) - 1))
                       + (IndexIn(CharAt(s, Len(s)), DigitChars) - 1)
ParseInt(s) ==
  LET t == Strip(s)
      signed == t # "" /\ CharAt(t, 1) \in {"-", "+"}
      body == IF signed THEN SubSeq(t, 2, Len(t)) ELSE t
  IN IF AllDigits(body)
       THEN [ok |-> TRUE,
             n |-> IF signed /\ CharAt(t, 1) = "-" THEN 0 - DigitsToNat(body)
                   ELSE DigitsToNat(body)]
       ELSE [ok |-> FALSE, n |-> 0]

\* str(x) for the float x = n / 1024**3 with a whole or half number of GB
FloatToStr(n) ==
  CASE n % Giga = 0 -> IntToStr(n \div Giga) \o ".0"
    [] n % Giga = Giga \div 2 -> IntToStr(n \div Giga) \o ".5"

\* str(v)
Str(v) ==
  CASE v.kind = "none" -> "None"
    [] v.kind = "float" -> FloatToStr(v.val)
    [] v.kind = "bool" -> (IF v.val THEN "True" ELSE "False")
    [] v.kind = "int" -> IntToStr(v.val)
    [] v.kind = "str" -> v.val
    [] v.kind = "list" -> "[...]"
    [] v.kind = "dict" -> "{...}"

(***************************************************************************)
(* CheckResult and CheckBaseModel._create_result                           *)
(***************************************************************************)
\* pydantic coercion of the `passed: bool` field: a bool is kept, the
\* integers 0 and 1 are accepted, any other value is a ValidationError
PydanticBool(v) ==
  CASE v.kind = "bool" -> [ok |-> TRUE, b |-> v.val]
    [] v.kind = "int" /\ v.val \in {0, 1} -> [ok |-> TRUE, b |-> (v.val = 1)]
    [] OTHER -> [ok |-> FALSE, b |-> FALSE]

\* _create_result with an already validated boolean `passed`
CreateResult(check, database_name, passed, actual_value, expected_value, message) ==
  [check_name |-> check.check_name,
   database |-> database_name,
   passed |-> passed,
   actual_value |-> actual_value,
   expected_value |-> expected_value,
   message |-> IF message = "" /\ ~passed THEN check.description ELSE message,
   is_override |-> FALSE]

\* outcome of a call: a returned CheckResult or a raised exception
Returned(r) == [exc |-> "none", result |-> r]
NoResult == [check_name |-> "", database |-> 0, passed |-> FALSE, actual_value |-> "",
             expected_value |-> "", message |-> "", is_override |-> FALSE]
Raised(e) == [exc |-> e, result |-> NoResult]

(***************************************************************************)
(* Data source answers to one query: the cursor raises, returns no row,    *)
(* or returns a row whose first column is a value                          *)
(***************************************************************************)
QueryRaises == [kind |-> "raise", val |-> 0]
NoRow == [kind |-> "norow", val |-> 0]

(***************************************************************************)
(* ValidationCheck                                                         *)
(***************************************************************************)
\* flashback_enabled_check._normalize_boolean
NormalizeBoolean(value) ==
  IF IsNone(value) THEN StrV("False")
  ELSE LET val_str == Upper(Strip(Str(value)))
       IN IF val_str \in {"YES", "TRUE", "Y", "1", "ON"} THEN StrV("True")
          ELSE IF val_str \in {"NO", "FALSE", "N", "0", "OFF", "NONE"} THEN StrV("False")
          ELSE StrV(val_str)

\* mutant: the normalizer is not applied
ApplyNormalizer_skipped(normalizer, value) == value

\* self.value_normalizer(actual_value) (lines 101-102)
ApplyNormalizer(normalizer, value) ==
  IF normalizer = "_normalize_boolean" THEN NormalizeBoolean(value) ELSE value

\* the normalizer is any callable given to the constructor: one that raises
\* is the normalizer "raises"
NormalizerFaults(normalizer, value) == normalizer = "raises"

\* int(x) if isinstance(x, str) else x, as [ok, num, n, frac]: ok = FALSE is
\* the ValueError of int(); num = FALSE is a value that is not a number,
\* whose comparison raises TypeError; the number is n, or lies strictly
\* between n and n + 1 when frac
ToNum(x) ==
  CASE x.kind = "str" -> [ok |-> ParseInt(x.val).ok, num |-> TRUE, n |-> ParseInt(x.val).n,
                          frac |-> FALSE]
    [] x.kind = "int" -> [ok |-> TRUE, num |-> TRUE, n |-> x.val, frac |-> FALSE]
    [] x.kind = "bool" -> [ok |-> TRUE, num |-> TRUE, n |-> IF x.val THEN 1 ELSE 0,
                           frac |-> FALSE]
    [] x.kind = "float" -> [ok |-> TRUE, num |-> TRUE, n |-> x.val \div Giga,
                            frac |-> x.val % Giga # 0]
    [] OTHER -> [ok |-> TRUE, num |-> FALSE, n |-> 0, frac |-> FALSE]

\* a >= t and a <= t for a number a and a whole number t
NumGe(a, t) == a.n >= t.n
NumLe(a, t) == a.n < t.n \/ (a.n = t.n /\ ~a.frac)

\* ValidationCheck._validate; the value returned for REQUIRED is Python's
\* `threshold and actual is not None`
Validate(validation_type, actual, threshold) ==
  CASE validation_type = "REQUIRED" ->
         IF Truthy(threshold) THEN BoolV(~IsNone(actual)) ELSE threshold
    [] validation_type = "EQUALS" ->
         BoolV(Upper(Str(actual)) = Upper(Str(threshold)))
    [] validation_type = "MINIMUM" ->
         LET a == ToNum(actual)
             t == ToNum(threshold)
         IN IF a.ok /\ t.ok /\ a.num /\ t.num THEN BoolV(NumGe(a, t)) ELSE BoolV(FALSE)
    [] validation_type = "MAXIMUM" ->
         LET a == ToNum(actual)
             t == ToNum(threshold)
         IN IF a.ok /\ t.ok /\ a.num /\ t.num THEN BoolV(NumLe(a, t)) ELSE BoolV(FALSE)
    [] OTHER -> BoolV(FALSE)

\* ValidationCheck._get_expected_value
GetExpectedValue(validation_type, threshold) ==
  CASE validation_type = "REQUIRED" ->
         (IF Truthy(threshold) THEN "Set/Enabled" ELSE "Not Required")
    [] validation_type = "EQUALS" -> Str(threshold)
    [] validation_type = "MINIMUM" -> ">= " \o Str(threshold)
    [] validation_type = "MAXIMUM" -> "<= " \o Str(threshold)
    [] OTHER -> Str(threshold)

\* mutant: a falsy rule value (False, 0) falls back to the static threshold
EffectiveThreshold_orStatic(check, rule_value) ==
  IF Truthy(rule_value) THEN rule_value ELSE check.threshold

\* the effective threshold of ValidationCheck.execute (line 72)
EffectiveThreshold(check, rule_value) ==
  IF ~IsNone(rule_value) THEN rule_value ELSE check.threshold

\* mutant: only None means "not required"
NotRequired_noneOnly(threshold) == IsNone(threshold)

\* `threshold is False or threshold is None` (lines 75-77 and line 95)
NotRequired(threshold) == IsFalse(threshold) \/ IsNone(threshold)

\* lines 95-97: whether a missing value ("NOT SET") passes
MissingPasses(validation_type, threshold) ==
  IF NotRequired(threshold) THEN BoolV(TRUE)
  ELSE Validate(validation_type, StrV("NOT SET"), threshold)

\* `not row or not row[0]` (line 91): no row, or a falsy first column
MissingValue(fetch) == fetch.kind = "norow" \/ ~Truthy(fetch)

\* OracleHealthCheck._get_value_transformer
GetValueTransformer(rule_name) ==
  IF rule_name = "sga_target_min_gb" THEN "bytes_to_gb" ELSE ""

\* transform(actual_value): lambda x: int(x) / (1024**3); int() of a string
\* that is no integer is a ValueError, int(None) a TypeError
ApplyTransform(transform, value) ==
  IF transform = "" THEN [ok |-> TRUE, value |-> value]
  ELSE CASE value.kind = "str" ->
              [ok |-> ParseInt(value.val).ok, value |-> FloatV(ParseInt(value.val).n)]
         [] value.kind = "int" -> [ok |-> TRUE, value |-> FloatV(value.val)]
         [] value.kind = "bool" -> [ok |-> TRUE, value |-> FloatV(IF value.val THEN 1 ELSE 0)]
         [] value.kind = "float" -> [ok |-> TRUE, value |-> FloatV(value.val \div Giga)]
         [] OTHER -> [ok |-> FALSE, value |-> value]

\* the `except Exception` branch of ValidationCheck.execute
ErrorResult(check, database_name, threshold, text) ==
  CreateResult(check, database_name, FALSE, "ERROR",
               GetExpectedValue(check.validation_type, threshold),
               "Error executing check: " \o text)

\* mutant: the fault is not caught in execute
ExecuteFault_propagates(check, database_name, threshold, text) == Raised("Exception")

\* lines 118-126: a fault in the try body of execute is caught and becomes
\* the ERROR result
ExecuteFault(check, database_name, threshold, text) ==
  Returned(ErrorResult(check, database_name, threshold, text))

\* ValidationCheck.execute; fetch is the data source's answer to check.query
ValidationExecute(check, fetch, database_name, rule_value, transform) ==
  LET threshold == EffectiveThreshold(check, rule_value)
      expected_value == GetExpectedValue(check.validation_type, threshold)
  IN IF NotRequired(threshold) /\ check.validation_type = "REQUIRED"
       THEN Returned(CreateResult(check, database_name, TRUE, "N/A", "Not Required",
                                  "Check not required"))
     ELSE IF fetch.kind = "raise"
       THEN ExecuteFault(check, database_name, threshold, "query failed")
     ELSE IF MissingValue(fetch)
       THEN LET passed == PydanticBool(MissingPasses(check.validation_type, threshold))
            IN IF passed.ok
                 THEN Returned(CreateResult(check, database_name, passed.b, "NOT SET",
                                            expected_value, ""))
                 ELSE ExecuteFault(check, database_name, threshold,
                                   "validation error for CheckResult")
     ELSE LET normalized == ApplyNormalizer(check.value_normalizer, fetch)
              transformed == ApplyTransform(transform, normalized)
              actual_value == transformed.value
              passed == PydanticBool(Validate(check.validation_type, actual_value, threshold))
          IN IF NormalizerFaults(check.value_normalizer, fetch)
               THEN ExecuteFault(check, database_name, threshold, "normalizer failed")
             ELSE IF ~transformed.ok
               THEN ExecuteFault(check, database_name, threshold, "invalid literal for int()")
             ELSE IF passed.ok
               THEN Returned(CreateResult(check, database_name, passed.b, Str(actual_value),
                                          expected_value, ""))
               ELSE ExecuteFault(check, database_name, threshold,
                                 "validation error for CheckResult")

(***************************************************************************)
(* PasswordValidationFunctionCheck                                         *)
(***************************************************************************)
RECURSIVE Join(_, _)
Join(sep, l) == IF l = <<>> THEN ""
                ELSE IF Len(l) = 1 THEN l[1]
                ELSE l[1] \o sep \o Join(sep, Tail(l))

\* sub in s
Contains(s, sub) ==
  \E i \in 1..(Len(s) + 1) : i + Len(sub) - 1 <= Len(s) /\ SubSeq(s, i, i + Len(sub) - 1) = sub

RECURSIVE Quoted(_)
Quoted(l) == IF l = <<>> THEN <<>> ELSE <<"'" \o Head(l) \o "'">> \o Quoted(Tail(l))
ListRepr(l) == "[" \o Join(", ", Quoted(l)) \o "]"

RECURSIVE WrongFunction(_)
WrongFunction(rows) ==
  IF rows = <<>> THEN <<>>
  ELSE <<Head(rows).profile \o "(" \o Str(Head(rows).limit) \o ")">> \o WrongFunction(Tail(rows))

\* PasswordValidationFunctionCheck.execute; fetch is QueryRaises or
\* ListV(rows), the dba_profiles rows [profile, limit] of the data source
PasswordExecute(check, fetch, database_name, validation_function, profiles) ==
  IF validation_function = "" \/ profiles = <<>>
    THEN Returned(CreateResult(check, database_name, TRUE, "N/A", "N/A",
                               "No password validation configuration specified"))
  ELSE IF fetch.kind = "raise"
    THEN Returned(CreateResult(check, database_name, FALSE, "ERROR",
                    validation_function \o " on profiles: " \o Join(", ", profiles),
                    "Error executing check: query failed"))
  ELSE
    LET wanted == {profiles[i] : i \in DOMAIN profiles}
        rows == SelectSeq(fetch.val, LAMBDA r : r.profile \in wanted)
        with_function == SelectSeq(rows, LAMBDA r :
                           ~IsNone(r.limit) /\ Contains(Upper(Str(r.limit)), Upper(validation_function)))
        without_function == SelectSeq(rows, LAMBDA r : IsNone(r.limit))
        wrong_function == SelectSeq(rows, LAMBDA r :
                           ~IsNone(r.limit) /\ ~Contains(Upper(Str(r.limit)), Upper(validation_function)))
        checked == {rows[i].profile : i \in DOMAIN rows}
        missing_profiles == SelectSeq(profiles, LAMBDA q : q \notin checked)
        not_configured == [i \in DOMAIN without_function |-> without_function[i].profile]
                            \o missing_profiles
        passed == /\ Len(with_function) = Len(profiles)
                  /\ Len(not_configured) = 0
                  /\ Len(wrong_function) = 0
    IN IF rows = <<>>
         THEN Returned(CreateResult(check, database_name, FALSE, "No validation function found",
                         validation_function \o " on profiles: " \o Join(", ", profiles),
                         "Required profiles " \o ListRepr(profiles)
                           \o " do not have PASSWORD_VERIFY_FUNCTION set"))
         ELSE Returned(CreateResult(check, database_name, passed,
                         IF passed THEN "All " \o IntToStr(Len(with_function)) \o " profile(s) configured"
                         ELSE IF wrong_function # <<>>
                           THEN "Wrong function: " \o Join(", ", WrongFunction(wrong_function))
                         ELSE IF not_configured # <<>>
                           THEN "Not configured: " \o Join(", ", not_configured)
                         ELSE "Partial configuration",
                         validation_function \o " on " \o IntToStr(Len(profiles)) \o " profile(s)",
                         ""))

(***************************************************************************)
(* The custom-logic checks.  The answer to a fetchall() is QueryRaises or  *)
(* RowsV(rows), each row a tuple of values                                 *)
(***************************************************************************)
RowsV(l) == [kind |-> "rows", val |-> l]

\* str.startswith, l[:n], str.lower()
StartsWith(s, prefix) == Len(s) >= Len(prefix) /\ SubSeq(s, 1, Len(prefix)) = prefix
\* mutant: the list is not truncated
Take_all(l, n) == l
\* l[:n]
Take(l, n) == SubSeq(l, 1, IF Len(l) < n THEN Len(l) ELSE n)
LowerChar(c) == IF IsIn(c, UpperChars) THEN CharAt(LowerChars, IndexIn(c, UpperChars)) ELSE c
RECURSIVE Lower(_)
Lower(s) == IF s = "" THEN "" ELSE LowerChar(CharAt(s, 1)) \o Lower(SubSeq(s, 2, Len(s)))

\* int(v) as [ok, n]: ok = FALSE is its ValueError or TypeError
IntOf(v) ==
  CASE v.kind = "str" -> ParseInt(v.val)
    [] v.kind = "int" -> [ok |-> TRUE, n |-> v.val]
    [] v.kind = "bool" -> [ok |-> TRUE, n |-> IF v.val THEN 1 ELSE 0]
    [] OTHER -> [ok |-> FALSE, n |-> 0]

\* the disable switch of a custom check: `rule_value is False or rule_value
\* is None`, answered with the N/A result
Disabled(rule_value) == IsFalse(rule_value) \/ IsNone(rule_value)
DisabledResult(check, database_name) ==
  CreateResult(check, database_name, TRUE, "N/A", "Not Required", "Check not required")

\* mutant: the check has no except clause
CustomFault_propagates(check, database_name, expected_value, message) == Raised("Exception")

\* the `except Exception` clause of a custom check: the failing ERROR result
CustomFault(check, database_name, expected_value, message) ==
  Returned(CreateResult(check, database_name, FALSE, "ERROR", expected_value, message))

\* the words of the two storage-location checks
DatafilesWords ==
  [prefix |-> "+DATA", none_expected |-> "+DATA/...", none_message |-> "No datafiles found",
   all_in |-> " datafiles in +DATA", some_in |-> " in +DATA, ",
   expected |-> "All datafiles in +DATA", found |-> " datafile(s) not in +DATA: ",
   error |-> "Error checking datafiles ASM location: "]
RecoveryLogsWords ==
  [prefix |-> "+RECO", none_expected |-> "+RECO/...", none_message |-> "No redo log files found",
   all_in |-> " redo logs in +RECO", some_in |-> " in +RECO, ",
   expected |-> "All redo logs in +RECO", found |-> " redo log file(s) not in +RECO: ",
   error |-> "Error checking recovery logs ASM location: "]

\* DatafilesASMCheck.execute and RecoveryLogsASMCheck.execute; the rows are
\* (path): a path that is no string makes startswith raise
StorageLocationExecute(check, fetch, database_name, rule_value, w) ==
  IF Disabled(rule_value) THEN Returned(DisabledResult(check, database_name))
  ELSE IF fetch.kind = "raise"
    THEN CustomFault(check, database_name, w.none_expected, w.error \o "query failed")
  ELSE IF fetch.val = <<>>
    THEN Returned(CreateResult(check, database_name, FALSE, "0", w.none_expected,
                               w.none_message))
  ELSE IF \E i \in DOMAIN fetch.val : fetch.val[i][1].kind # "str"
    THEN CustomFault(check, database_name, w.none_expected,
                     w.error \o "object has no attribute 'startswith'")
  ELSE LET paths == [i \in DOMAIN fetch.val |-> fetch.val[i][1].val]
           inside == SelectSeq(paths, LAMBDA path : StartsWith(path, w.prefix))
           elsewhere == SelectSeq(paths, LAMBDA path : ~StartsWith(path, w.prefix))
           passed == Len(elsewhere) = 0
           counts == IntToStr(Len(inside)) \o "/" \o IntToStr(Len(paths))
           invalid_files ==
             Join(", ", Take(elsewhere, 3))
             \o (IF Len(elsewhere) > 3
                   THEN "... (+" \o IntToStr(Len(elsewhere) - 3) \o " more)" ELSE "")
       IN Returned(CreateResult(check, database_name, passed,
                     IF passed THEN counts \o w.all_in
                     ELSE counts \o w.some_in \o IntToStr(Len(elsewhere)) \o " elsewhere",
                     w.expected,
                     IF passed THEN ""
                     ELSE "Found " \o IntToStr(Len(elsewhere)) \o w.found \o invalid_files))

\* SchedulerLogRetentionCheck.execute; fetch is the answer to fetchone()
SchedulerLogRetentionExecute(check, fetch, database_name, min_days) ==
  LET expected_value == ">= " \o IntToStr(min_days) \o " days"
  IN IF fetch.kind = "raise"
       THEN CustomFault(check, database_name, expected_value,
                        "Error executing check: query failed")
     ELSE IF fetch.kind = "norow" \/ ~Truthy(fetch)
       THEN Returned(CreateResult(check, database_name, FALSE, "Not set", expected_value,
                                  check.description))
     ELSE IF IntOf(fetch).ok
       THEN LET log_history_days == IntOf(fetch).n
                passed == log_history_days >= min_days
            IN Returned(CreateResult(check, database_name, passed,
                                     IntToStr(log_history_days) \o " days", expected_value,
                                     IF passed THEN "" ELSE check.description))
     ELSE Returned(CreateResult(check, database_name, FALSE, Str(fetch), expected_value,
                                check.description))

\* one row (job_class_name, log_history) of JobClassLogRetentionCheck
JobClassName(row) == IF Truthy(row[1]) THEN row[1] ELSE StrV("Unknown")
JobClassDays(row) ==
  IF Truthy(row[2]) /\ IntOf(row[2]).ok THEN IntOf(row[2]).n ELSE 0

\* JobClassLogRetentionCheck.execute; a class name that is no string makes
\* the join of the names raise
JobClassLogRetentionExecute(check, fetch, database_name, min_days) ==
  LET expected_value ==
        "All job classes with log retention >= " \o IntToStr(min_days) \o " day(s)"
  IN IF fetch.kind = "raise"
       THEN CustomFault(check, database_name, expected_value,
                        "Error executing check: query failed")
     ELSE IF fetch.val = <<>>
       THEN Returned(CreateResult(check, database_name, TRUE, "No job classes found", "N/A",
                                  ""))
     ELSE LET with == SelectSeq(fetch.val, LAMBDA row : JobClassDays(row) >= min_days)
              without == SelectSeq(fetch.val, LAMBDA row : JobClassDays(row) < min_days)
              names == [i \in DOMAIN without |-> JobClassName(without[i])]
              passed == Len(without) = 0
          IN IF passed
               THEN Returned(CreateResult(check, database_name, TRUE,
                               "All " \o IntToStr(Len(with)) \o " classes configured",
                               expected_value, ""))
             ELSE IF \E i \in DOMAIN names : i <= 3 /\ names[i].kind # "str"
               THEN CustomFault(check, database_name, expected_value,
                                "Error executing check: expected str instance")
             ELSE Returned(CreateResult(check, database_name, FALSE,
                             IntToStr(Len(without)) \o " class(es) without retention: "
                             \o Join(", ", [i \in DOMAIN Take(names, 3) |-> names[i].val])
                             \o (IF Len(without) > 3
                                   THEN " (+" \o IntToStr(Len(without) - 3) \o " more)"
                                   ELSE ""),
                             expected_value, check.description))

\* one row (job_name, enabled) of SchedulerJobsStatusCheck
JobEnabled(row) == Upper(Str(row[2])) = "TRUE"
\* mutant: the keywords are matched case-sensitively
JobCritical_caseSensitive(row) ==
  Contains(row[1].val, "purge") \/ Contains(row[1].val, "cleanup")
JobCritical(row) ==
  Contains(Lower(row[1].val), "purge") \/ Contains(Lower(row[1].val), "cleanup")

\* SchedulerJobsStatusCheck.execute: the rule value is not used, and a fault
\* is answered with a passing ERROR result; a disabled job whose name is no
\* string makes lower() raise
SchedulerJobsStatusExecute(check, fetch, database_name, rule_value) ==
  IF fetch.kind = "raise"
    THEN Returned(CreateResult(check, database_name, TRUE, "ERROR", "N/A",
                               "Error checking scheduler jobs: query failed"))
  ELSE IF fetch.val = <<>>
    THEN Returned(CreateResult(check, database_name, TRUE, "0 jobs", "N/A",
                               "No scheduler jobs found"))
  ELSE LET enabled_jobs == SelectSeq(fetch.val, JobEnabled)
           disabled_jobs == SelectSeq(fetch.val, LAMBDA row : ~JobEnabled(row))
       IN IF \E i \in DOMAIN disabled_jobs : disabled_jobs[i][1].kind # "str"
            THEN Returned(CreateResult(check, database_name, TRUE, "ERROR", "N/A",
                            "Error checking scheduler jobs: object has no attribute 'lower'"))
          ELSE LET critical_disabled_jobs == SelectSeq(disabled_jobs, JobCritical)
                   passed == Len(critical_disabled_jobs) = 0
                   counts == IntToStr(Len(enabled_jobs)) \o " enabled, "
                             \o IntToStr(Len(disabled_jobs)) \o " disabled"
               IN Returned(CreateResult(check, database_name, passed, counts,
                    "All purge/cleanup jobs enabled",
                    IF ~passed
                      THEN "ALERT: Critical job(s) disabled: "
                           \o Join(", ", [i \in DOMAIN critical_disabled_jobs |->
                                            critical_disabled_jobs[i][1].val])
                      ELSE "All scheduler jobs: " \o IntToStr(Len(fetch.val)) \o " total ("
                           \o counts \o ")"))

\* PDBSaveStateCheck.execute; fetch answers the CDB query, second the count
\* of open PDBs; a fault is answered with a passing 'Skipped' result
PDBSaveStateExecute(check, fetch, second, database_name) ==
  LET skipped == Returned(CreateResult(check, database_name, TRUE, "Skipped", "N/A",
                                       "Not applicable for this database"))
  IN IF fetch.kind = "raise" THEN skipped
     ELSE IF fetch.kind = "norow"
       THEN Returned(CreateResult(check, database_name, TRUE, "N/A - Non-CDB", "N/A",
                       "Non-CDB database - PDB save state not applicable"))
     ELSE IF second.kind = "raise" THEN skipped
     ELSE LET total_pdbs == IF second.kind = "norow" THEN IntV(0) ELSE second
          IN IF total_pdbs.kind \notin {"int", "bool"} THEN skipped
             ELSE LET n == IntOf(total_pdbs).n
                      passed == n = 0
                  IN Returned(CreateResult(check, database_name, passed,
                       Str(total_pdbs) \o " PDBs in READ WRITE or READ ONLY mode",
                       IF n > 0 THEN "All PDBs with save state configured" ELSE "N/A",
                       IF passed THEN ""
                       ELSE "This check requires manual verification - " \o Str(total_pdbs)
                            \o " open PDBs found."))

\* sorted() of strings, by code point: the characters the model uses, in
\* ASCII order
Alphabet == " +-./0123456789ABCDEFGHIJKLMNOPQRSTUVWXYZ_abcdefghijklmnopqrstuvwxyz"
RECURSIVE StrLess(_, _)
StrLess(a, b) ==
  IF a = "" THEN b # ""
  ELSE IF b = "" THEN FALSE
  ELSE IF CharAt(a, 1) = CharAt(b, 1)
    THEN StrLess(SubSeq(a, 2, Len(a)), SubSeq(b, 2, Len(b)))
  ELSE IndexIn(CharAt(a, 1), Alphabet) < IndexIn(CharAt(b, 1), Alphabet)
RECURSIVE InsertSorted(_, _)
InsertSorted(x, l) ==
  IF l = <<>> THEN <<x>>
  ELSE IF StrLess(x, Head(l)) THEN <<x>> \o l
  ELSE <<Head(l)>> \o InsertSorted(x, Tail(l))
RECURSIVE SortStrings(_)
SortStrings(l) == IF l = <<>> THEN <<>> ELSE InsertSorted(Head(l), SortStrings(Tail(l)))
RECURSIVE SortedSet(_)
SortedSet(S) ==
  IF S = {} THEN <<>>
  ELSE LET least == CHOOSE x \in S : \A y \in S : x = y \/ StrLess(x, y)
       IN <<least>> \o SortedSet(S \ {least})

\* format_size of RedoLogSizeCheck: f"{bytes / one_gb:.2f}GB", for a whole
\* number of quarters of a GB
FormatSize(bytes_val) ==
  IntToStr(bytes_val \div Giga)
  \o (CASE bytes_val % Giga = 0 -> ".00"
        [] bytes_val % Giga = Giga \div 4 -> ".25"
        [] bytes_val % Giga = Giga \div 2 -> ".50"
        [] bytes_val % Giga = 3 * (Giga \div 4) -> ".75")
  \o "GB"

MinOf(S) == CHOOSE x \in S : \A y \in S : x <= y

RECURSIVE InvalidGroups(_)
InvalidGroups(logs) ==
  IF logs = <<>> THEN <<>>
  ELSE <<"Group " \o Str(Head(logs)[1]) \o "(" \o FormatSize(Head(logs)[2].val) \o ")">>
       \o InvalidGroups(Tail(logs))

\* RedoLogSizeCheck.execute; the rows are (group#, bytes): a size that is no
\* number makes the comparison raise
RedoLogSizeExecute(check, fetch, database_name, rule_value) ==
  IF Disabled(rule_value) THEN Returned(DisabledResult(check, database_name))
  ELSE IF fetch.kind = "raise"
    THEN CustomFault(check, database_name, ">= 1GB",
                     "Error checking redo log sizes: query failed")
  ELSE IF fetch.val = <<>>
    THEN Returned(CreateResult(check, database_name, FALSE, "0", ">= 1GB",
                               "No online redo logs found"))
  ELSE IF \E i \in DOMAIN fetch.val : fetch.val[i][2].kind # "int"
    THEN CustomFault(check, database_name, ">= 1GB",
                     "Error checking redo log sizes: '>=' not supported")
  ELSE LET meeting == SelectSeq(fetch.val, LAMBDA row : row[2].val >= Giga)
           below == SelectSeq(fetch.val, LAMBDA row : row[2].val < Giga)
           passed == Len(below) = 0
           min_size == MinOf({(IF passed THEN meeting ELSE below)[i][2].val :
                                i \in DOMAIN (IF passed THEN meeting ELSE below)})
           invalid_groups ==
             InvalidGroups(Take(below, 3))
             \o (IF Len(below) > 3 THEN <<"+" \o IntToStr(Len(below) - 3) \o " more">>
                 ELSE <<>>)
       IN Returned(CreateResult(check, database_name, passed,
            IF passed
              THEN "All " \o IntToStr(Len(fetch.val)) \o " redo logs >= 1GB (min: "
                   \o FormatSize(min_size) \o ")"
              ELSE IntToStr(Len(meeting)) \o "/" \o IntToStr(Len(fetch.val)) \o " >= 1GB, "
                   \o IntToStr(Len(below)) \o " below (min: " \o FormatSize(min_size) \o ")",
            "All redo logs >= 1GB",
            IF passed THEN ""
            ELSE "Found " \o IntToStr(Len(below)) \o " redo log(s) below 1GB: "
                 \o Join(", ", invalid_groups)))

\* the position of the first and of the last "/" of a path, 0 when it has none
FirstSlash(path) ==
  IF Contains(path, "/")
    THEN CHOOSE i \in 1..Len(path) :
           CharAt(path, i) = "/" /\ \A j \in 1..(i - 1) : CharAt(path, j) # "/"
    ELSE 0
LastSlash(path) ==
  IF Contains(path, "/")
    THEN CHOOSE i \in 1..Len(path) :
           CharAt(path, i) = "/" /\ \A j \in (i + 1)..Len(path) : CharAt(path, j) # "/"
    ELSE 0

RECURSIVE RStripSlashes(_)
RStripSlashes(s) ==
  IF s # "" /\ CharAt(s, Len(s)) = "/" THEN RStripSlashes(SubSeq(s, 1, Len(s) - 1)) ELSE s

\* os.path.dirname
Dirname(path) ==
  LET head == SubSeq(path, 1, LastSlash(path))
  IN IF RStripSlashes(head) = "" THEN head ELSE RStripSlashes(head)

\* the "disk group" of a control file: the name after "+" of an ASM path,
\* the parent directory of any other path
DiskGroupOf(path) ==
  IF StartsWith(path, "+")
    THEN SubSeq(path, 2, IF FirstSlash(path) = 0 THEN Len(path) ELSE FirstSlash(path) - 1)
    ELSE Dirname(path)

\* ControlFileMultiplexingCheck.execute; the rows are (name)
ControlFileMultiplexingExecute(check, fetch, database_name, rule_value) ==
  IF Disabled(rule_value) THEN Returned(DisabledResult(check, database_name))
  ELSE IF fetch.kind = "raise"
    THEN CustomFault(check, database_name, ">= 2",
                     "Error checking control file multiplexing: query failed")
  ELSE IF fetch.val = <<>>
    THEN Returned(CreateResult(check, database_name, FALSE, "0", ">= 2",
                               "No control files found"))
  ELSE IF \E i \in DOMAIN fetch.val : fetch.val[i][1].kind # "str"
    THEN CustomFault(check, database_name, ">= 2",
           "Error checking control file multiplexing: object has no attribute 'startswith'")
  ELSE LET disk_groups == {DiskGroupOf(fetch.val[i][1].val) : i \in DOMAIN fetch.val}
           num_disk_groups == Cardinality(disk_groups)
           passed == num_disk_groups >= 2
       IN Returned(CreateResult(check, database_name, passed,
            IntToStr(num_disk_groups) \o " disk group(s): "
            \o Join(", ", SortedSet(disk_groups)),
            ">= 2 disk groups",
            IF passed THEN ""
            ELSE "Control files are not adequately multiplexed. Found "
                 \o IntToStr(num_disk_groups) \o " disk group(s), need at least 2."))

\* ManagementPackCheck.execute; the rows are (parameter): a parameter that
\* is no string makes the join of the names raise
ManagementPackExecute(check, fetch, database_name, rule_value) ==
  LET expected_value == "Tuning Pack, Diagnostics Pack"
  IN IF Disabled(rule_value) THEN Returned(DisabledResult(check, database_name))
     ELSE IF fetch.kind = "raise"
       THEN CustomFault(check, database_name, expected_value,
                        "Error checking management packs: query failed")
     ELSE IF fetch.val = <<>>
       THEN Returned(CreateResult(check, database_name, FALSE, "Neither pack enabled",
                       expected_value, "Management and tuning packs are not enabled"))
     ELSE IF \E i \in DOMAIN fetch.val : fetch.val[i][1].kind # "str"
       THEN CustomFault(check, database_name, expected_value,
                        "Error checking management packs: expected str instance")
     ELSE LET enabled_packs == [i \in DOMAIN fetch.val |-> fetch.val[i][1].val]
              enabled_set == {enabled_packs[i] : i \in DOMAIN enabled_packs}
              missing_packs == {"Tuning Pack", "Diagnostics Pack"} \ enabled_set
              passed == missing_packs = {}
          IN Returned(CreateResult(check, database_name, passed,
               (IF passed THEN "All required packs enabled: " ELSE "Enabled: ")
               \o Join(", ", SortStrings(enabled_packs)),
               expected_value,
               IF passed THEN ""
               ELSE "Missing pack(s): " \o Join(", ", SortedSet(missing_packs))))

\* one row (job_name, enabled) of AuditTrailPurgeJobCheck
PurgeJobName(row) == IF Truthy(row[1]) THEN row[1] ELSE StrV("")
PurgeJobEnabled(row) ==
  Upper(Str(IF Truthy(row[2]) THEN row[2] ELSE StrV("FALSE"))) \in {"TRUE", "Y", "1"}

\* AuditTrailPurgeJobCheck.execute: it has no disable switch; an enabled job
\* whose name is no string makes the join of the names raise
AuditTrailPurgeJobExecute(check, fetch, database_name) ==
  LET expected_value == "At least one enabled purge job"
  IN IF fetch.kind = "raise"
       THEN CustomFault(check, database_name, expected_value,
                        "Error executing check: query failed")
     ELSE LET purge_jobs == [i \in DOMAIN fetch.val |-> PurgeJobName(fetch.val[i])]
              enabled_rows == SelectSeq(fetch.val, PurgeJobEnabled)
              enabled_jobs == [i \in DOMAIN enabled_rows |-> PurgeJobName(enabled_rows[i])]
              passed == Len(enabled_jobs) > 0
          IN IF \E i \in DOMAIN enabled_jobs : i <= 2 /\ enabled_jobs[i].kind # "str"
               THEN CustomFault(check, database_name, expected_value,
                                "Error executing check: expected str instance")
             ELSE Returned(CreateResult(check, database_name, passed,
                    IF passed
                      THEN Join(", ", [i \in DOMAIN Take(enabled_jobs, 2) |->
                                         enabled_jobs[i].val])
                           \o (IF Len(enabled_jobs) > 2
                                 THEN " (+" \o IntToStr(Len(enabled_jobs) - 2) \o " more)"
                                 ELSE "")
                    ELSE IF Len(purge_jobs) > 0
                      THEN IntToStr(Len(purge_jobs)) \o " job(s) found but disabled: "
                           \o Str(purge_jobs[1])
                    ELSE "No purge jobs found",
                    expected_value,
                    IF passed THEN "" ELSE check.description))

(***************************************************************************)
(* A check registered by dynamic discovery: any CheckBaseModel subclass.   *)
(* Its execute is abstract, so its outcome is the environment's choice:    *)
(* a passing or failing result, or an exception (KeyError included)        *)
(***************************************************************************)
PluginExecute(check, outcome, database_name) ==
  CASE outcome = "pass" -> Returned(CreateResult(check, database_name, TRUE, "ok", "ok", ""))
    [] outcome = "fail" -> Returned(CreateResult(check, database_name, FALSE, "bad", "ok", ""))
    [] outcome = "KeyError" -> Raised("KeyError")
    [] OTHER -> Raised("Exception")

(***************************************************************************)
(* CheckRegistry                                                           *)
(***************************************************************************)
NewValidationCheck(name, check_name, description, validation_type, threshold, value_normalizer) ==
  [class |-> "ValidationCheck", name |-> name, check_name |-> check_name,
   description |-> description, validation_type |-> validation_type,
   threshold |-> threshold, value_normalizer |-> value_normalizer]

NewCustomCheck(class, name, check_name, description) ==
  [class |-> class, name |-> name, check_name |-> check_name,
   description |-> description, validation_type |-> "", threshold |-> None,
   value_normalizer |-> ""]

\* CheckRegistry._checks (the part of the registry the model uses)
Checks ==
  << NewValidationCheck("memory_target_required", "MEMORY_TARGET",
       "MEMORY_TARGET can be set for automatic memory management (optional for modern Oracle).",
       "REQUIRED", None, ""),
     NewValidationCheck("sessions_min", "SESSIONS_MIN",
       "The SESSIONS parameter should be set to at least 1000 to support sufficient concurrent user sessions.",
       "MINIMUM", IntV(1000), ""),
     NewValidationCheck("flashback_enabled", "FLASHBACK_ENABLED",
       "Flashback database should be enabled for recovery capabilities.",
       "EQUALS", StrV("True"), "_normalize_boolean"),
     NewValidationCheck("open_dblinks_max", "OPEN_DBLINKS",
       "Maximum number of open database links (open_links parameter).",
       "MINIMUM", None, ""),
     NewValidationCheck("jobs_enabled_min", "JOBS_ENABLED",
       "Should have at least the minimum number of enabled scheduler jobs.",
       "MINIMUM", None, ""),
     NewValidationCheck("sga_target_min_gb", "SGA_TARGET_MIN",
       "SGA_TARGET should be at least the configured minimum for optimal performance.",
       "MINIMUM", None, ""),
     NewCustomCheck("PasswordValidationFunctionCheck", "password_validation_function",
       "PASSWORD_VALIDATION_FUNCTION",
       "Required profiles should use the specified password validation function."),
     NewCustomCheck("DatafilesASMCheck", "datafiles_asm", "DATAFILES_ASM",
       "All datafiles should be stored in the +DATA ASM disk group."),
     NewCustomCheck("RecoveryLogsASMCheck", "recovery_logs_asm", "RECOVERY_LOGS_ASM",
       "Recovery logs (redo logs) should be stored in the +RECO ASM disk group."),
     NewCustomCheck("RedoLogSizeCheck", "redo_log_size", "REDO_LOG_SIZE",
       "Online redo logs should be at least 1GB in size for optimal performance."),
     NewCustomCheck("ControlFileMultiplexingCheck", "control_file_multiplexing",
       "CONTROL_FILE_MULTIPLEXING",
       "Control files should be multiplexed across at least two different disk groups for high availability."),
     NewCustomCheck("ManagementPackCheck", "management_pack", "MANAGEMENT_PACK",
       "Management pack and tuning pack should be enabled for optimal monitoring and performance tuning."),
     NewCustomCheck("SchedulerJobsStatusCheck", "scheduler_jobs_status", "SCHEDULER_JOBS_STATUS",
       "Reports on scheduler jobs status. Alerts if purge/cleanup jobs are disabled."),
     NewCustomCheck("SchedulerLogRetentionCheck", "scheduler_log_retention_days",
       "SCHEDULER_LOG_RETENTION",
       "Scheduler logs should be retained for at least 30 days for the audit trail."),
     NewCustomCheck("JobClassLogRetentionCheck", "job_class_log_retention_days",
       "JOB_CLASS_LOG_RETENTION", "All job classes should have log retention configured."),
     NewCustomCheck("AuditTrailPurgeJobCheck", "audit_trail_purge_job", "AUDIT_TRAIL_PURGE_JOB",
       "A scheduler log purge job should be enabled to prevent audit trail bloat."),
     NewCustomCheck("PDBSaveStateCheck", "pdb_save_state", "PDB_SAVE_STATE",
       "For CDB: Checks that all PDBs have saved states configured. For non-CDB: N/A."),
     NewCustomCheck("CheckBaseModel", "plugin_check", "PLUGIN_CHECK", "A discovered check.") >>

RegisteredNames == {Checks[i].name : i \in DOMAIN Checks}

\* CheckRegistry.get_check: the check, or KeyError
GetCheck(check_name) ==
  IF check_name \notin RegisteredNames
    THEN [exc |-> "KeyError", check |-> Checks[1]]
    ELSE [exc |-> "none", check |-> Checks[CHOOSE i \in DOMAIN Checks : Checks[i].name = check_name]]

(***************************************************************************)
(* ValidationManager: vm = [loaded, defaults, overrides]; defaults is an   *)
(* ordered dict, overrides maps an instance name to DictV(dict) or to None *)
(* (an overrides entry left empty in the YAML document)                    *)
(***************************************************************************)
\* ValidationManager.get_rules; rules.update(None) raises TypeError
GetRules(vm, database_name) ==
  IF database_name \in DOMAIN vm.overrides
    THEN IF vm.overrides[database_name].kind = "dict"
           THEN [exc |-> "none", rules |-> DictUpdate(vm.defaults, vm.overrides[database_name].val)]
           ELSE [exc |-> "TypeError", rules |-> <<>>]
    ELSE [exc |-> "none", rules |-> vm.defaults]

\* mutant: the keys of the resolved rules instead of those of the overrides
GetOverriddenKeys_resolved(vm, database_name) ==
  [exc |-> GetRules(vm, database_name).exc, keys |-> Keys(GetRules(vm, database_name).rules)]

\* ValidationManager.get_overridden_keys; None.keys() raises AttributeError
GetOverriddenKeys(vm, database_name) ==
  IF database_name \in DOMAIN vm.overrides
    THEN IF vm.overrides[database_name].kind = "dict"
           THEN [exc |-> "none", keys |-> Keys(vm.overrides[database_name].val)]
           ELSE [exc |-> "AttributeError", keys |-> {}]
    ELSE [exc |-> "none", keys |-> {}]

\* ValidationManager.get_password_validation_config (database_name given)
GetPasswordValidationConfig(vm, database_name) ==
  LET r == GetRules(vm, database_name)
      pwd_config == GetOr(r.rules, "password_validation", ListV(<<>>))
  IN IF r.exc # "none" THEN [exc |-> r.exc, configs |-> <<>>]
     ELSE IF ~Truthy(pwd_config) THEN [exc |-> "none", configs |-> <<>>]
     ELSE IF pwd_config.kind = "dict"
       THEN [exc |-> "none",
             configs |-> << DictV(<< [k |-> "validation_function",
                                     v |-> GetOr(pwd_config.val, "validation_function", StrV(""))],
                                    [k |-> "profiles",
                                     v |-> GetOr(pwd_config.val, "profiles", ListV(<<>>))] >>) >>]
     ELSE IF pwd_config.kind = "list" THEN [exc |-> "none", configs |-> pwd_config.val]
     ELSE [exc |-> "none", configs |-> <<>>]

(***************************************************************************)
(* OracleHealthCheck._execute_checks, one rule of the loop                 *)
(***************************************************************************)
\* the default of the parameter min_days of the two retention checks
SchedulerLogMinDays == 30
JobClassMinDays == 1

\* check.execute(cursor=cur, database_name=..., rule_value=..., transform=...)
\* dispatched on the class of the registered check; source is the data
\* source behind the cursor.  The call names no min_days, so a retention
\* check runs with the default of that parameter
ExecuteCheck(check, source, database_name, rule_value) ==
  CASE check.class = "ValidationCheck" ->
         ValidationExecute(check, source.scalar, database_name, rule_value,
                           GetValueTransformer(check.name))
    [] check.class = "PasswordValidationFunctionCheck" ->
         PasswordExecute(check, source.profiles, database_name, "", <<>>)
    [] check.class = "DatafilesASMCheck" ->
         StorageLocationExecute(check, source.rows, database_name, rule_value, DatafilesWords)
    [] check.class = "RecoveryLogsASMCheck" ->
         StorageLocationExecute(check, source.rows, database_name, rule_value,
                                RecoveryLogsWords)
    [] check.class = "RedoLogSizeCheck" ->
         RedoLogSizeExecute(check, source.rows, database_name, rule_value)
    [] check.class = "ControlFileMultiplexingCheck" ->
         ControlFileMultiplexingExecute(check, source.rows, database_name, rule_value)
    [] check.class = "ManagementPackCheck" ->
         ManagementPackExecute(check, source.rows, database_name, rule_value)
    [] check.class = "SchedulerJobsStatusCheck" ->
         SchedulerJobsStatusExecute(check, source.rows, database_name, rule_value)
    [] check.class = "SchedulerLogRetentionCheck" ->
         SchedulerLogRetentionExecute(check, source.scalar, database_name,
                                      SchedulerLogMinDays)
    [] check.class = "JobClassLogRetentionCheck" ->
         JobClassLogRetentionExecute(check, source.rows, database_name, JobClassMinDays)
    [] check.class = "AuditTrailPurgeJobCheck" ->
         AuditTrailPurgeJobExecute(check, source.rows, database_name)
    [] check.class = "PDBSaveStateCheck" ->
         PDBSaveStateExecute(check, source.scalar, source.second, database_name)
    [] OTHER -> PluginExecute(check, source.plugin, database_name)

\* mutant: the flag is never stamped and keeps its default
IsOverride_unstamped(rule_name, keys) == FALSE

\* result.is_override = rule_name in overridden_keys (line 396)
IsOverride(rule_name, keys) == rule_name \in keys

\* mutant: the rule loop skips False as well as None
RuleSkipped_orFalse(rule_value) == IsNone(rule_value) \/ IsFalse(rule_value)

\* `if rule_value is None: continue` (lines 377-378)
RuleSkipped(rule_value) == IsNone(rule_value)

\* the body of the rule loop for one (rule_name, rule_value): the results it
\* appends (none when the rule is None, the check is unknown or execute raises)
RuleStep(rule_name, rule_value, source, database_name, keys) ==
  IF RuleSkipped(rule_value) THEN <<>>
  ELSE LET g == GetCheck(rule_name)
           out == ExecuteCheck(g.check, source, database_name, rule_value)
       IN IF g.exc # "none" THEN <<>>
          ELSE IF out.exc # "none" THEN <<>>
          ELSE << [out.result EXCEPT !.is_override = IsOverride(rule_name, keys)] >>

\* the loop of _execute_password_validation_check over the configurations
RECURSIVE PasswordLoop(_, _, _, _)
PasswordLoop(check, configs, source, database_name) ==
  IF configs = <<>> THEN <<>>
  ELSE LET pwd_config == Head(configs).val
           validation_function == GetOr(pwd_config, "validation_function", StrV("")).val
           profiles == GetOr(pwd_config, "profiles", ListV(<<>>)).val
           rest == PasswordLoop(check, Tail(configs), source, database_name)
       IN IF validation_function = "" \/ profiles = <<>> THEN rest
          ELSE << PasswordExecute(check, source.profiles, database_name,
                                  validation_function, profiles).result >> \o rest

\* OracleHealthCheck._execute_password_validation_check: the results appended
PasswordValidationStep(vm, source, database_name) ==
  LET c == GetPasswordValidationConfig(vm, database_name)
      g == GetCheck("password_validation_function")
  IN IF ~vm.loaded THEN <<>>
     ELSE IF c.exc # "none" \/ c.configs = <<>> THEN <<>>
     ELSE IF g.exc # "none" THEN <<>>
     ELSE PasswordLoop(g.check, c.configs, source, database_name)

(***************************************************************************)
(* State of the engine (OracleHealthCheck) and of its collaborators        *)
(***************************************************************************)
VARIABLES
  inventory,           \* self.inventory: [loaded, names]
  validation_manager,  \* self.validation_manager: [loaded, defaults, overrides]
  data_source,         \* the data source behind each instance name
  pc,                  \* position of run_all_checks
  databases,           \* the argument of run_all_checks: [given, names]
  results,             \* self.results
  returned,            \* the list run_all_checks returned
  db_names,            \* the list the instance loop iterates
  pos,                 \* position of the instance loop in db_names
  conn,                \* the local conn of the loop body (NoConn = None)
  pool,                \* handles acquired from the pools and not yet closed
  rules,               \* the resolved rules of the current instance
  overridden_keys,     \* overridden_keys of the current instance
  rule_pos,            \* position of the rule loop in rules
  phase,               \* per instance: how far its processing has come
  faulted,             \* a fault was swallowed while executing the current instance
  call                 \* the last direct call of a method under test, with its outcome

vars == <<inventory, validation_manager, data_source, pc, databases, results, returned,
          db_names, pos, conn, pool, rules, overridden_keys, rule_pos, phase, faulted, call>>

config == <<inventory, validation_manager, data_source>>

NoConn == 0
NoCall == [op |-> "none"]
DbNames == 1..MaxDb

\* sorted(names)
RECURSIVE Sorted(_)
Sorted(S) == IF S = {} THEN <<>>
             ELSE LET m == CHOOSE x \in S : \A y \in S : x <= y
                  IN <<m>> \o Sorted(S \ {m})

(***************************************************************************)
(* Rule documents and data sources the engine is run on                    *)
(***************************************************************************)
Item(key, value) == [k |-> key, v |-> value]

PwdConfig(validation_function, profiles) ==
  DictV(<< Item("validation_function", StrV(validation_function)),
           Item("profiles", ListV(profiles)) >>)

EngineDefaults ==
  { << Item("memory_target_required", None), Item("sessions_min", IntV(1000)),
       Item("no_such_check", IntV(1)), Item("plugin_check", BoolV(TRUE)) >>,
    << Item("memory_target_required", BoolV(TRUE)), Item("plugin_check", BoolV(TRUE)),
       Item("password_validation",
            ListV(<< PwdConfig("ora12c_verify_function", <<"DEFAULT">>),
                     PwdConfig("", <<"APP">>),
                     PwdConfig("ora12c_verify_function", <<"DEFAULT", "APP">>) >>)) >>,
    << Item("memory_target_required", BoolV(FALSE)), Item("sessions_min", IntV(1000)),
       Item("password_validation", PwdConfig("ORA12C_VERIFY_FUNCTION", <<"DEFAULT">>)) >> }

EngineOverrides ==
  { <<>>,
    [n \in {1} |-> DictV(<< Item("sessions_min", IntV(100)),
                            Item("memory_target_required", None) >>)],
    [n \in {1} |-> DictV(<< Item("password_validation", PwdConfig("VERIFY_FN", <<"APP">>)),
                            Item("flashback_enabled", StrV("true")),
                            Item("memory_target_required", BoolV(FALSE)) >>)],
    [n \in {1, 2} |-> IF n = 1 THEN None ELSE DictV(<< Item("plugin_check", BoolV(FALSE)) >>)] }

ProfileRows ==
  ListV(<< [profile |-> "DEFAULT", limit |-> StrV("ORA12C_VERIFY_FUNCTION")],
           [profile |-> "APP", limit |-> None] >>)

Reachable(cursor, scalar, profiles, plugin) ==
  [connect |-> TRUE, cursor |-> cursor, scalar |-> scalar, profiles |-> profiles,
   plugin |-> plugin, rows |-> QueryRaises, second |-> QueryRaises]

DataSources ==
  { [connect |-> FALSE, cursor |-> FALSE, scalar |-> QueryRaises, profiles |-> QueryRaises,
     plugin |-> "raise", rows |-> QueryRaises, second |-> QueryRaises],
    Reachable(FALSE, QueryRaises, QueryRaises, "raise") }
  \cup { Reachable(TRUE, QueryRaises, QueryRaises, p) : p \in {"pass", "raise"} }
  \cup { Reachable(TRUE, NoRow, ListV(<<>>), p) : p \in {"fail", "KeyError"} }
  \cup { Reachable(TRUE, StrV("2500"), ProfileRows, p) : p \in {"pass", "raise"} }

\* the arguments run_all_checks is called with: None, an empty list, a list
\* naming one instance and an unknown name, a list naming no instance
FilterChoices ==
  { [given |-> FALSE, names |-> {}], [given |-> TRUE, names |-> {}],
    [given |-> TRUE, names |-> {1, MaxDb + 1}], [given |-> TRUE, names |-> {MaxDb + 1}] }

(***************************************************************************)
(* Init: the engine after construction                                     *)
(***************************************************************************)
EngineIdle ==
  /\ pc = "idle"
  /\ databases = [given |-> FALSE, names |-> {}]
  /\ results = <<>>
  /\ returned = <<>>
  /\ db_names = <<>>
  /\ pos = 0
  /\ conn = NoConn
  /\ pool = {}
  /\ rules = <<>>
  /\ overridden_keys = {}
  /\ rule_pos = 0
  /\ phase = [n \in DbNames |-> "NotStarted"]
  /\ faulted = FALSE

Idle == EngineIdle /\ call = NoCall

Unreachable ==
  [connect |-> FALSE, cursor |-> FALSE, scalar |-> QueryRaises, profiles |-> QueryRaises,
   plugin |-> "raise", rows |-> QueryRaises, second |-> QueryRaises]

Init ==
  /\ \/ /\ inventory = [loaded |-> TRUE, names |-> DbNames]
        /\ data_source \in [DbNames -> DataSources]
     \/ /\ inventory = [loaded |-> FALSE, names |-> {}]
        /\ data_source = [n \in DbNames |-> Unreachable]
  /\ \/ \E d \in EngineDefaults, o \in EngineOverrides :
          validation_manager = [loaded |-> TRUE, defaults |-> d, overrides |-> o]
     \/ validation_manager = [loaded |-> FALSE, defaults |-> <<>>, overrides |-> <<>>]
  /\ Idle

(***************************************************************************)
(* OracleHealthCheck.run_all_checks                                        *)
(***************************************************************************)
\* mutant: the names come back in descending order
GetDatabaseNames_descending(inv) ==
  LET s == Sorted(inv.names) IN [i \in 1..Len(s) |-> s[Len(s) + 1 - i]]

\* Inventory.get_database_names: sorted(self.databases.keys())
GetDatabaseNames(inv) == Sorted(inv.names)

\* mutant: the list of the previous run is kept
NewResults_kept(old) == old

\* `self.results = []` (line 316)
NewResults(old) == <<>>

\* lines 312-328: the entry of run_all_checks
EnterRun(arg) ==
  /\ databases' = arg
  /\ IF ~inventory.loaded
       THEN /\ returned' = <<>>
            /\ pc' = "returned"
            /\ UNCHANGED <<results, db_names, pos>>
       ELSE LET all == GetDatabaseNames(inventory)
                filtered == IF arg.given /\ arg.names # {}
                              THEN SelectSeq(all, LAMBDA n : n \in arg.names)
                              ELSE all
            IN /\ results' = NewResults(results)
               /\ db_names' = filtered
               /\ IF arg.given /\ arg.names # {} /\ filtered = <<>>
                    THEN /\ returned' = <<>>
                         /\ pc' = "returned"
                         /\ pos' = pos
                    ELSE /\ returned' = returned
                         /\ pc' = "loop"
                         /\ pos' = 1
  /\ UNCHANGED <<config, call, conn, pool, rules, overridden_keys, rule_pos, phase, faulted>>

\* run_all_checks called on the engine after construction
RunAllChecks(arg) ==
  /\ pc = "idle"
  /\ EnterRun(arg)

\* run_all_checks called again after an earlier call has returned
RunAllChecksAgain(arg) ==
  /\ pc = "returned"
  /\ EnterRun(arg)

\* mutant: the try body of the instance loop has no handler
CatchInstanceFault_propagates(exc) == "propagate"

\* the handler of lines 343-344: an exception raised in the try body is
\* caught and logged
CatchInstanceFault(exc) == "caught"

\* mutant: the handler records a failure marker for the instance
ConnectFaultResults_marker(database_name) ==
  << [check_name |-> "CONNECTION", database |-> database_name, passed |-> FALSE,
      actual_value |-> "ERROR", expected_value |-> "Connected",
      message |-> "Error running checks", is_override |-> FALSE] >>

\* what the handler of lines 343-344 records for the instance: nothing
ConnectFaultResults(database_name) == <<>>

\* mutant: the release sits at the end of the try body and is skipped when a
\* fault was swallowed
ReleaseNeeded_unlessFaulted(c) == c # NoConn /\ ~faulted

\* the finally clause of lines 345-348: `if conn:` release it
ReleaseNeeded(c) == c # NoConn

\* mutant: a fault of _get_connection does not leave the try body
AfterGetConnection_always(acquired) == "connected"

\* where control goes after line 335: on to _execute_checks, or out of the
\* try body when _get_connection raised
AfterGetConnection(acquired) == IF acquired THEN "connected" ELSE "finally"

\* lines 330-335: the next instance, conn = self._get_connection(db)
GetConnection ==
  /\ pc = "loop"
  /\ pos <= Len(db_names)
  /\ LET db == db_names[pos]
         acquired == data_source[db].connect
     IN /\ conn' = IF acquired THEN db ELSE NoConn
        /\ pool' = IF acquired THEN pool \cup {db} ELSE pool
        /\ phase' = [phase EXCEPT ![db] = IF acquired THEN "Connected" ELSE "Failed"]
        /\ results' = IF acquired THEN results ELSE results \o ConnectFaultResults(db)
        /\ pc' = IF acquired \/ CatchInstanceFault("connect") = "caught"
                   THEN AfterGetConnection(acquired)
                   ELSE "raised"
  /\ UNCHANGED <<config, call, databases, returned, db_names, pos, rules, overridden_keys,
                 rule_pos, faulted>>

\* lines 341, 361-372: _execute_checks up to the rule loop; a fault of
\* get_rules, get_overridden_keys or conn.cursor() is caught by line 420
ExecuteChecks ==
  /\ pc = "connected"
  /\ LET db == db_names[pos]
         r == GetRules(validation_manager, db)
         o == GetOverriddenKeys(validation_manager, db)
         fault == \/ r.exc # "none"
                  \/ o.exc # "none"
                  \/ conn = NoConn
                  \/ ~data_source[db].cursor
     IN /\ phase' = [phase EXCEPT ![db] = "Executing"]
        /\ IF ~validation_manager.loaded
             THEN /\ pc' = "finally"
                  /\ UNCHANGED <<rules, overridden_keys, rule_pos, faulted>>
           ELSE IF fault
             THEN /\ pc' = "finally"
                  /\ faulted' = TRUE
                  /\ UNCHANGED <<rules, overridden_keys, rule_pos>>
           ELSE /\ rules' = r.rules
                /\ overridden_keys' = o.keys
                /\ rule_pos' = 1
                /\ pc' = "rules"
                /\ faulted' = FALSE
  /\ UNCHANGED <<config, call, databases, results, returned, db_names, pos, conn, pool>>

\* an exception of check.execute is caught by line 406 or line 412
RuleFaulted(rule_name, rule_value, source, database_name) ==
  /\ ~RuleSkipped(rule_value)
  /\ GetCheck(rule_name).exc = "none"
  /\ ExecuteCheck(GetCheck(rule_name).check, source, database_name, rule_value).exc # "none"

\* mutant: the KeyError of get_check is left to the handler of line 420,
\* outside the rule loop
CatchNotFound_outside(rule_name) == "finally"

\* where control goes when get_check raises KeyError: the handler of lines
\* 406-411 is inside the loop, which goes on with the next rule
CatchNotFound(rule_name) == "rules"

\* mutant: a fault of execute is left to the handler of line 420, outside
\* the rule loop
CatchExecuteFault_outside(rule_name) == "finally"

\* where control goes when execute raises: the handler of lines 412-415 is
\* inside the loop, which goes on with the next rule
CatchExecuteFault(rule_name) == "rules"

\* mutant: the new results are put in front of the list
Appended_front(rs, new) == new \o rs

\* self.results.append(result) (lines 398 and 566)
Appended(rs, new) == rs \o new

\* lines 375-415: one iteration of the rule loop
ExecuteRule ==
  /\ pc = "rules"
  /\ rule_pos <= Len(rules)
  /\ LET db == db_names[pos]
         rule == rules[rule_pos]
     IN /\ results' = Appended(results,
                              RuleStep(rule.k, rule.v, data_source[db], db, overridden_keys))
        /\ faulted' = (faulted \/ RuleFaulted(rule.k, rule.v, data_source[db], db))
        /\ pc' = IF ~RuleSkipped(rule.v) /\ GetCheck(rule.k).exc # "none"
                   THEN CatchNotFound(rule.k)
                 ELSE IF RuleFaulted(rule.k, rule.v, data_source[db], db)
                   THEN CatchExecuteFault(rule.k)
                 ELSE "rules"
  /\ rule_pos' = rule_pos + 1
  /\ UNCHANGED <<config, call, databases, returned, db_names, pos, conn, pool, rules,
                 overridden_keys, phase>>

\* line 418: _execute_password_validation_check, after the rule loop
ExecutePasswordValidationCheck ==
  /\ pc = "rules"
  /\ rule_pos > Len(rules)
  /\ LET db == db_names[pos]
     IN results' = Appended(results,
                            PasswordValidationStep(validation_manager, data_source[db], db))
  /\ pc' = "finally"
  /\ UNCHANGED <<config, call, databases, returned, db_names, pos, conn, pool, rules,
                 overridden_keys, rule_pos, phase, faulted>>

\* mutant: _release_connection has no try/except
CatchReleaseFault_propagates(close_faults) == "propagate"

\* _release_connection, lines 281-287: a fault of conn.close() is caught and
\* logged
CatchReleaseFault(close_faults) == "caught"

\* mutant: close() leaves the handle acquired
Released_leaked(p, c) == p

\* conn.close() (line 283): the handle goes back to its pool
Released(p, c) == p \ {c}

\* lines 345-348: the finally clause, then the next instance; close() is
\* called on the handle whether or not it then faults
ReleaseConnection ==
  /\ pc = "finally"
  /\ LET db == db_names[pos]
     IN \E close_faults \in BOOLEAN :
          /\ IF ReleaseNeeded(conn)
               THEN /\ pool' = Released(pool, conn)
                    /\ pc' = IF close_faults /\ CatchReleaseFault(close_faults) # "caught"
                               THEN "raised" ELSE "loop"
               ELSE /\ pool' = pool
                    /\ pc' = "loop"
          /\ phase' = [phase EXCEPT ![db] =
                         IF phase[db] # "Executing" THEN phase[db]
                         ELSE IF faulted THEN "PartiallyCompleted" ELSE "Completed"]
  /\ conn' = NoConn
  /\ pos' = pos + 1
  /\ faulted' = FALSE
  /\ UNCHANGED <<config, call, databases, results, returned, db_names, rules, overridden_keys,
                 rule_pos>>

\* line 350: return self.results
ReturnResults ==
  /\ pc = "loop"
  /\ pos > Len(db_names)
  /\ returned' = results
  /\ pc' = "returned"
  /\ UNCHANGED <<config, call, databases, results, db_names, pos, conn, pool, rules,
                 overridden_keys, rule_pos, phase, faulted>>

Next ==
  \/ \E arg \in FilterChoices : RunAllChecks(arg)
  \/ GetConnection
  \/ ExecuteChecks
  \/ ExecuteRule
  \/ ExecutePasswordValidationCheck
  \/ ReleaseConnection
  \/ ReturnResults

Spec == Init /\ [][Next]_vars

\* the engine called any number of times, each call after the previous one
\* has returned
NextRuns ==
  \/ Next
  \/ \E arg \in FilterChoices : RunAllChecksAgain(arg)

SpecRuns == Init /\ [][NextRuns]_vars

(***************************************************************************)
(* The rule resolver called directly: get_rules and get_overridden_keys on *)
(* rule documents drawn from all mappings of up to MaxKeys keys            *)
(***************************************************************************)
ResolverKeys == {"sessions_min", "memory_target_required", "flashback_enabled"}
ResolverValues == {None, IntV(1000), BoolV(TRUE)}

\* all ordered dicts of up to MaxKeys distinct keys
ResolverDicts ==
  UNION { { d \in [1..n -> [k : ResolverKeys, v : ResolverValues]] :
              \A i, j \in 1..n : i # j => d[i].k # d[j].k } : n \in 0..MaxKeys }

\* overrides sections: absent, an entry for instance 1, entries for 1 and 2
ResolverOverrides ==
  { <<>> } \cup { << DictV(d) >> : d \in ResolverDicts }
           \cup { << DictV(<<>>), DictV(d) >> : d \in ResolverDicts }

\* instance names asked for: with entries, without, and not in the inventory
ResolverNames == 1..(MaxDb + 1)

InitResolver ==
  /\ inventory = [loaded |-> TRUE, names |-> DbNames]
  /\ data_source = [n \in DbNames |-> Unreachable]
  /\ \E d \in ResolverDicts, o \in ResolverOverrides :
       validation_manager = [loaded |-> TRUE, defaults |-> d, overrides |-> o]
  /\ Idle

\* validation_manager.get_rules(database_name)
CallGetRules(database_name) ==
  /\ call' = [op |-> "get_rules", database_name |-> database_name,
              out |-> GetRules(validation_manager, database_name)]
  /\ UNCHANGED <<config, pc, databases, results, returned, db_names, pos, conn, pool, rules,
                 overridden_keys, rule_pos, phase, faulted>>

\* validation_manager.get_overridden_keys(database_name)
CallGetOverriddenKeys(database_name) ==
  /\ call' = [op |-> "get_overridden_keys", database_name |-> database_name,
              out |-> GetOverriddenKeys(validation_manager, database_name)]
  /\ UNCHANGED <<config, pc, databases, results, returned, db_names, pos, conn, pool, rules,
                 overridden_keys, rule_pos, phase, faulted>>

NextResolver ==
  \/ \E n \in ResolverNames : CallGetRules(n)
  \/ \E n \in ResolverNames : CallGetOverriddenKeys(n)

SpecResolver == InitResolver /\ [][NextResolver]_vars

(***************************************************************************)
(* ValidationCheck.execute called directly, on checks of every validation  *)
(* type, with rule values, data source answers and transformers drawn      *)
(* from bounded sets                                                       *)
(***************************************************************************)
ValidationTypes == {"REQUIRED", "EQUALS", "MINIMUM", "MAXIMUM"}
StaticThresholds == {None, IntV(1), StrV("True"), BoolV(TRUE)}
Normalizers == {"", "_normalize_boolean", "raises"}
Numbers == 0..MaxNum

ValidateChecks ==
  { Checks[i] : i \in {j \in DOMAIN Checks : Checks[j].class = "ValidationCheck"} }
  \cup { NewValidationCheck("a_check", "A_CHECK", "A validation check.", vt, th, nz) :
           vt \in ValidationTypes, th \in StaticThresholds, nz \in Normalizers }

RuleValues ==
  {None, BoolV(FALSE), BoolV(TRUE), StrV("True"), StrV("abc")}
  \cup {IntV(n) : n \in Numbers} \cup {StrV(NatToStr(n)) : n \in Numbers}

\* answers to the check's query: a fault, no row, a NULL or empty column,
\* numbers as numbers and as strings, words
FetchValues ==
  {QueryRaises, NoRow, None, StrV(""), StrV("YES"), StrV("true"), StrV(" no "), StrV("abc")}
  \cup {IntV(n) : n \in Numbers} \cup {StrV(NatToStr(n)) : n \in Numbers}

\* answers in bytes, for the bytes -> GB transformer: 0.5, 1 and 1.5 GB
FetchBytes ==
  {QueryRaises, NoRow, StrV("abc"), IntV(Giga \div 2), StrV(NatToStr(Giga)),
   IntV(Giga + Giga \div 2)}

\* the calls of execute that are made: on FetchValues without transformer,
\* on FetchBytes with the bytes -> GB transformer
ExecuteCalls ==
  { [op |-> "pending", check |-> check, fetch |-> fetch, rule_value |-> rule_value,
     transform |-> "", out |-> Raised("pending")] :
      check \in ValidateChecks, fetch \in FetchValues, rule_value \in RuleValues }
  \cup
  { [op |-> "pending", check |-> check, fetch |-> fetch, rule_value |-> rule_value,
     transform |-> "bytes_to_gb", out |-> Raised("pending")] :
      check \in ValidateChecks, fetch \in FetchBytes, rule_value \in RuleValues }

InitValidate ==
  /\ inventory = [loaded |-> FALSE, names |-> {}]
  /\ data_source = [n \in DbNames |-> Unreachable]
  /\ validation_manager = [loaded |-> FALSE, defaults |-> <<>>, overrides |-> <<>>]
  /\ EngineIdle
  /\ call \in ExecuteCalls

\* check.execute(cursor, database_name, rule_value=..., transform=...)
CallExecute ==
  /\ call.op = "pending"
  /\ call' = [call EXCEPT !.op = "execute",
                          !.out = ValidationExecute(call.check, call.fetch, 1,
                                                    call.rule_value, call.transform)]
  /\ UNCHANGED <<config, pc, databases, results, returned, db_names, pos, conn, pool, rules,
                 overridden_keys, rule_pos, phase, faulted>>

NextValidate == CallExecute

SpecValidate == InitValidate /\ [][NextValidate]_vars

(***************************************************************************)
(* The custom-logic checks, called as the engine calls them: by the rule   *)
(* loop (lines 386-393) and, for the password-validation check, by         *)
(* _execute_password_validation_check                                      *)
(***************************************************************************)
\* all sequences over S of length at most n
SeqsUpTo(S, n) == UNION {[1..k -> S] : k \in 0..n}

\* a reachable data source that answers fetchone() with scalar (and then
\* with second), fetchall() with rows, the dba_profiles query with profiles
SourceOf(scalar, second, rows, profiles) ==
  [Reachable(TRUE, scalar, profiles, "raise") EXCEPT !.rows = rows, !.second = second]

RowsSource(rows) == SourceOf(QueryRaises, QueryRaises, rows, QueryRaises)

CheckOfClass(class) == Checks[CHOOSE i \in DOMAIN Checks : Checks[i].class = class]

\* the rule values the loop passes on: never None, which it skips
CustomRuleValues ==
  {BoolV(FALSE), BoolV(TRUE), IntV(0), IntV(1), IntV(7), IntV(30)}

\* answers to fetchall(): a fault, or up to MaxRows rows drawn from cells
RowAnswers(cells) == {QueryRaises} \cup {RowsV(l) : l \in SeqsUpTo(cells, MaxRows)}

PathRows == {<<StrV("+DATA/f1")>>, <<StrV("+RECO/r1")>>, <<StrV("/u01/f3")>>}
RedoRows == {<<IntV(1), IntV(Giga \div 2)>>, <<IntV(2), IntV(Giga)>>,
             <<IntV(3), IntV(Giga + Giga \div 2)>>}
ControlFileRows == {<<StrV("+DATA/cf1")>>, <<StrV("+RECO/st/cf2")>>,
                    <<StrV("/u01/oradata/cf3")>>, <<StrV("cf4")>>}
PackRows == {<<StrV("Tuning Pack")>>, <<StrV("Diagnostics Pack")>>}
JobRows == {<<StrV(n), StrV(e)>> : n \in {"NIGHTLY_PURGE", "REPORT_GEN", "Cleanup_Tmp"},
                                   e \in {"TRUE", "FALSE"}}
JobClassRows == {<<StrV("DEFAULT_JOB_CLASS"), d>> : d \in {None, IntV(0), StrV("7"), IntV(30)}}
                \cup {<<StrV("APP_CLASS"), IntV(1)>>}
PurgeRows == {<<StrV("PURGE_LOG"), e>> : e \in {StrV("TRUE"), StrV("FALSE"), None}}
             \cup {<<StrV("AUDIT_TRAIL_PURGE"), StrV("Y")>>}
RetentionAnswers ==
  {QueryRaises, NoRow, None, IntV(0), IntV(7), StrV("10"), StrV("30"), IntV(45), StrV("abc")}

\* a NULL in the first column of the only row
NullRow == RowsV(<< <<None, None>> >>)

\* the data sources each custom check is run on
CustomSources(class) ==
  CASE class \in {"DatafilesASMCheck", "RecoveryLogsASMCheck"} ->
         {RowsSource(r) : r \in RowAnswers(PathRows) \cup {NullRow}}
    [] class = "RedoLogSizeCheck" ->
         {RowsSource(r) : r \in RowAnswers(RedoRows) \cup {NullRow}}
    [] class = "ControlFileMultiplexingCheck" ->
         {RowsSource(r) : r \in RowAnswers(ControlFileRows) \cup {NullRow}}
    [] class = "ManagementPackCheck" ->
         {RowsSource(r) : r \in {QueryRaises, NullRow}
                               \cup {RowsV(l) : l \in SeqsUpTo(PackRows, 2)}}
    [] class = "SchedulerJobsStatusCheck" ->
         {RowsSource(r) : r \in {QueryRaises, NullRow}
                               \cup {RowsV(l) : l \in SeqsUpTo(JobRows, 2)}}
    [] class = "JobClassLogRetentionCheck" ->
         {RowsSource(r) : r \in {QueryRaises, RowsV(<< <<IntV(5), None>> >>)}
                               \cup {RowsV(l) : l \in SeqsUpTo(JobClassRows, 2)}}
    [] class = "AuditTrailPurgeJobCheck" ->
         {RowsSource(r) : r \in {QueryRaises, RowsV(<< <<IntV(5), StrV("TRUE")>> >>)}
                               \cup {RowsV(l) : l \in SeqsUpTo(PurgeRows, 2)}}
    [] class = "SchedulerLogRetentionCheck" ->
         {SourceOf(a, QueryRaises, QueryRaises, QueryRaises) : a \in RetentionAnswers}
    [] class = "PDBSaveStateCheck" ->
         {SourceOf(a, b, QueryRaises, QueryRaises) :
            a \in {QueryRaises, NoRow, StrV("YES")},
            b \in {QueryRaises, NoRow, None, IntV(0), IntV(2)}}

CustomClasses ==
  {"DatafilesASMCheck", "RecoveryLogsASMCheck", "RedoLogSizeCheck",
   "ControlFileMultiplexingCheck", "ManagementPackCheck", "SchedulerJobsStatusCheck",
   "SchedulerLogRetentionCheck", "JobClassLogRetentionCheck", "AuditTrailPurgeJobCheck",
   "PDBSaveStateCheck"}

\* the calls of execute that are made: by the rule loop, with the rule value;
\* by the password step, with a validation function and its profiles
CustomCalls ==
  UNION { { [op |-> "pending", via |-> "rule", check |-> CheckOfClass(class),
               source |-> source, rule_value |-> rule_value, validation_function |-> "",
               profiles |-> <<>>, out |-> Raised("pending")] :
                source \in CustomSources(class), rule_value \in CustomRuleValues } :
          class \in CustomClasses }
PasswordCalls ==
  { [op |-> "pending", via |-> "password",
     check |-> CheckOfClass("PasswordValidationFunctionCheck"),
     source |-> SourceOf(QueryRaises, QueryRaises, QueryRaises, fetch),
     rule_value |-> None, validation_function |-> validation_function,
     profiles |-> profiles, out |-> Raised("pending")] :
      fetch \in {QueryRaises, ListV(<<>>), ProfileRows},
      validation_function \in {"", "ORA12C_VERIFY_FUNCTION"},
      profiles \in {<<>>, <<"DEFAULT">>, <<"DEFAULT", "APP">>} }

InitCustom ==
  /\ inventory = [loaded |-> FALSE, names |-> {}]
  /\ data_source = [n \in DbNames |-> Unreachable]
  /\ validation_manager = [loaded |-> FALSE, defaults |-> <<>>, overrides |-> <<>>]
  /\ EngineIdle
  /\ call \in CustomCalls \cup PasswordCalls

\* check.execute(cursor=cur, database_name=..., rule_value=..., transform=...)
CallCheckExecute ==
  /\ call.op = "pending"
  /\ call.via = "rule"
  /\ call' = [call EXCEPT !.op = "execute",
                          !.out = ExecuteCheck(call.check, call.source, 1, call.rule_value)]
  /\ UNCHANGED <<config, pc, databases, results, returned, db_names, pos, conn, pool, rules,
                 overridden_keys, rule_pos, phase, faulted>>

\* check.execute(cursor=cur, database_name=..., validation_function=..., profiles=...)
CallPasswordExecute ==
  /\ call.op = "pending"
  /\ call.via = "password"
  /\ call' = [call EXCEPT !.op = "execute",
                          !.out = PasswordExecute(call.check, call.source.profiles, 1,
                                                  call.validation_function, call.profiles)]
  /\ UNCHANGED <<config, pc, databases, results, returned, db_names, pos, conn, pool, rules,
                 overridden_keys, rule_pos, phase, faulted>>

NextCustom == CallCheckExecute \/ CallPasswordExecute

SpecCustom == InitCustom /\ [][NextCustom]_vars

TypeOK ==
  /\ pc \in {"idle", "loop", "connected", "rules", "finally", "returned", "raised"}
  /\ conn \in DbNames \cup {NoConn}
  /\ pool \subseteq DbNames

(***************************************************************************)
(* OracleHealthCheck.get_summary                                           *)
(***************************************************************************)
RECURSIVE CountIf(_, _, _)
CountIf(rs, database_name, wantPassed) ==
  IF rs = <<>> THEN 0
  ELSE (IF Head(rs).database = database_name /\ (Head(rs).passed = wantPassed) THEN 1 ELSE 0)
       + CountIf(Tail(rs), database_name, wantPassed)

GetSummary(rs) ==
  [n \in {rs[i].database : i \in DOMAIN rs} |->
     [passed |-> CountIf(rs, n, TRUE),
      failed |-> CountIf(rs, n, FALSE),
      total |-> CountIf(rs, n, TRUE) + CountIf(rs, n, FALSE)]]

(***************************************************************************)
(* What the engine appends for one instance whose handle was acquired, and *)
(* for a list of such instances: the run of _execute_checks on each        *)
(***************************************************************************)
RECURSIVE RuleLoop(_, _, _, _)
RuleLoop(rs, source, database_name, keys) ==
  IF rs = <<>> THEN <<>>
  ELSE RuleStep(Head(rs).k, Head(rs).v, source, database_name, keys)
       \o RuleLoop(Tail(rs), source, database_name, keys)

InstanceResults(database_name) ==
  LET r == GetRules(validation_manager, database_name)
      o == GetOverriddenKeys(validation_manager, database_name)
      source == data_source[database_name]
  IN IF ~validation_manager.loaded \/ r.exc # "none" \/ o.exc # "none" \/ ~source.cursor
       THEN <<>>
       ELSE RuleLoop(r.rules, source, database_name, o.keys)
            \o PasswordValidationStep(validation_manager, source, database_name)

RECURSIVE RunResults(_)
RunResults(names) ==
  IF names = <<>> THEN <<>>
  ELSE InstanceResults(Head(names)) \o RunResults(Tail(names))

Finished == pc \in {"returned", "raised"}
Attempted(n) == phase[n] # "NotStarted"
Listed == {db_names[i] : i \in DOMAIN db_names}

(***************************************************************************)
(* Claims                                                                  *)
(***************************************************************************)

\* C1: every handle acquired for an instance has been released (close()
\* called on it) when the engine is between instances or the run has ended,
\* whichever way the instance's processing ended; a handle that is still
\* open is the one of the instance being processed.
C1_ReleasedOnEveryExitPath ==
  /\ pc \in {"idle", "loop", "returned", "raised"} => pool = {}
  /\ pool \subseteq {conn}

\* C1 witness: an instance whose processing swallowed a fault has been left
\* and another whose processing was clean, both handles released.
C1_Witness ==
  /\ pc = "loop"
  /\ pool = {}
  /\ \E a, b \in DbNames : phase[a] = "PartiallyCompleted" /\ phase[b] = "Completed"

\* C2: when the run has ended, every listed instance was attempted, and the
\* results are exactly those of a run over the list without the instances
\* whose connection faulted.
C2_ConnectFaultIsolated ==
  (Finished /\ pos > 0) =>
     /\ \A n \in Listed : Attempted(n)
     /\ results = RunResults(SelectSeq(db_names, LAMBDA n : data_source[n].connect))

\* C2 witness: the run ended, the first instance failed to connect and a
\* later instance has results.
C2_Witness ==
  /\ pc = "returned"
  /\ \E a, b \in Listed :
       /\ a < b
       /\ phase[a] = "Failed"
       /\ \E i \in DOMAIN results : results[i].database = b

\* the longest resolved rule list of any instance, and a bound on the steps
\* the engine takes for one instance
MaxRules ==
  LET lens == {Len(validation_manager.defaults)}
              \cup {Len(validation_manager.defaults) + Len(validation_manager.overrides[n].val) :
                      n \in {m \in DOMAIN validation_manager.overrides :
                               validation_manager.overrides[m].kind = "dict"}}
  IN CHOOSE x \in lens : \A y \in lens : y <= x
StepsPerInstance == MaxRules + 4

\* the number of steps run_all_checks can still take: it decreases with
\* every step of the engine, so the run cannot go on for ever
Measure ==
  LET later == (Len(db_names) - pos) * StepsPerInstance
  IN CASE pc = "idle" -> (MaxDb + 1) * StepsPerInstance + 2
       [] pc = "loop" -> later + StepsPerInstance + 1
       [] pc = "connected" -> later + StepsPerInstance
       [] pc = "rules" -> later + StepsPerInstance - rule_pos
       [] pc = "finally" -> later + 2
       [] OTHER -> 0

\* the engine is at a position from which it can take its next step: the
\* loops are inside their lists
CanStep ==
  /\ pc \in {"idle", "loop", "connected", "rules", "finally"}
  /\ pc = "loop" => pos \in 1..(Len(db_names) + 1)
  /\ pc \in {"connected", "rules", "finally"} => pos \in 1..Len(db_names)
  /\ pc = "rules" => rule_pos \in 1..(Len(rules) + 1)

\* C3: run_all_checks never ends by raising, what it returns is the list of
\* results accumulated so far, and once called it returns: until it has
\* returned it can take a next step, and every step brings the end nearer
\* (the measure of the remaining steps strictly decreases).
C3_NeverRaisesAndReturns ==
  /\ [](pc # "raised")
  /\ [](pc = "returned" => returned = results)
  /\ [](pc # "returned" => CanStep)
  /\ [][Measure' < Measure /\ Measure' >= 0]_vars

\* C3 witness: the run returned a non-empty list although one instance failed
\* to connect and another swallowed a fault.
C3_Witness ==
  /\ pc = "returned"
  /\ returned # <<>>
  /\ \E a, b \in DbNames : phase[a] = "Failed" /\ phase[b] = "PartiallyCompleted"

\* C4: an instance whose handle acquisition faults has no result in the
\* result list and no entry in the summary.
C4_UnreachableInstanceAbsent ==
  \A n \in DbNames :
    (Attempted(n) /\ ~data_source[n].connect) =>
       /\ \A i \in DOMAIN results : results[i].database # n
       /\ n \notin DOMAIN GetSummary(results)

\* C4 witness: the run ended with results, and an instance that failed to
\* connect was attempted.
C4_Witness ==
  /\ pc = "returned"
  /\ results # <<>>
  /\ \E n \in DbNames : phase[n] = "Failed" /\ ~data_source[n].connect

\* the transitions of the per-instance state machine as the claim lists them
ClaimedEdges ==
  { <<"NotStarted", "Connected">>, <<"Connected", "Executing">>, <<"Executing", "Completed">>,
    <<"Connected", "Failed">>, <<"Executing", "PartiallyCompleted">> }

\* the transitions the engine makes: a connection fault leaves the instance
\* without a handle, so it fails from NotStarted
EngineEdges ==
  { <<"NotStarted", "Connected">>, <<"Connected", "Executing">>, <<"Executing", "Completed">>,
    <<"NotStarted", "Failed">>, <<"Executing", "PartiallyCompleted">> }

Terminal == {"Completed", "PartiallyCompleted", "Failed"}

\* a step follows the state machine with the given transitions: each
\* instance keeps its state or takes a transition, checks run and results are
\* appended only for the instance whose handle is held, and when the run
\* ends every instance that left NotStarted is in a terminal state
FollowsStateMachine(edges) ==
  /\ \A n \in DbNames : phase'[n] # phase[n] => <<phase[n], phase'[n]>> \in edges
  /\ (pc = "rules" \/ results' # results) =>
        /\ conn # NoConn
        /\ conn = db_names[pos]
        /\ conn \in pool
        /\ phase[conn] = "Executing"
  /\ pc' \in {"returned", "raised"} =>
        /\ \A n \in DbNames : phase'[n] \in Terminal \cup {"NotStarted"}
        /\ \A i \in DOMAIN db_names' : phase'[db_names'[i]] \in Terminal

\* C5 as stated: every instance follows only NotStarted -> Connected ->
\* Executing -> Completed, Connected -> Failed on a connection fault, or
\* Executing -> PartiallyCompleted; no check runs for an instance that is not
\* connected, and every instance that leaves NotStarted ends in a terminal state.
C5_Original == [][FollowsStateMachine(ClaimedEdges)]_vars

\* C5 as amended: the same, except that a connection fault takes the instance
\* from NotStarted to Failed (its handle is never acquired, so it never is
\* Connected).
C5_StateMachine == [][FollowsStateMachine(EngineEdges)]_vars

\* C5 witness: the run ended with one instance Failed, and another
\* PartiallyCompleted or Completed with results.
C5_Witness ==
  /\ pc = "returned"
  /\ \E a, b \in DbNames :
       /\ phase[a] = "Failed"
       /\ phase[b] \in {"Completed", "PartiallyCompleted"}
       /\ \E i \in DOMAIN results : results[i].database = b

\* overrides[X] of the rule document, an empty mapping when X has no entry
OverridesOf(database_name) ==
  IF database_name \in DOMAIN validation_manager.overrides
       /\ validation_manager.overrides[database_name].kind = "dict"
    THEN validation_manager.overrides[database_name].val
    ELSE <<>>

\* C6: get_rules(X) has the keys of defaults and of overrides[X]; a key of
\* overrides[X] has the override's value, a key only in defaults has the
\* default's value; without an overrides entry the result is defaults.
C6_GetRulesMerges ==
  call.op = "get_rules" =>
    LET X == call.database_name
        got == call.out.rules
        defaults == validation_manager.defaults
    IN /\ call.out.exc = "none"
       /\ Keys(got) = Keys(defaults) \cup Keys(OverridesOf(X))
       /\ Len(got) = Cardinality(Keys(got))
       /\ \A key \in Keys(OverridesOf(X)) : Get(got, key) = Get(OverridesOf(X), key)
       /\ \A key \in Keys(defaults) \ Keys(OverridesOf(X)) : Get(got, key) = Get(defaults, key)
       /\ X \notin DOMAIN validation_manager.overrides => got = defaults

\* C6 witness: get_rules was called for an instance whose overrides collide
\* with a default of another value, add a key, and leave a default alone.
C6_Witness ==
  /\ call.op = "get_rules"
  /\ LET ov == OverridesOf(call.database_name)
         defaults == validation_manager.defaults
     IN /\ \E key \in Keys(ov) \cap Keys(defaults) : Get(ov, key) # Get(defaults, key)
        /\ Keys(ov) \ Keys(defaults) # {}
        /\ Keys(defaults) \ Keys(ov) # {}

\* C7: get_overridden_keys(X) holds a key exactly when overrides has an entry
\* for X with that key; it is empty for an X without entry, in the inventory
\* or not.
C7_OverriddenKeys ==
  call.op = "get_overridden_keys" =>
    LET X == call.database_name
    IN /\ call.out.exc = "none"
       /\ \A key \in ResolverKeys :
            key \in call.out.keys <=>
              /\ X \in DOMAIN validation_manager.overrides
              /\ \E i \in DOMAIN validation_manager.overrides[X].val :
                   validation_manager.overrides[X].val[i].k = key
       /\ call.out.keys \subseteq ResolverKeys
       /\ X \notin DOMAIN validation_manager.overrides => call.out.keys = {}

\* C7 witness: get_overridden_keys was called for an instance whose overrides
\* name a key that defaults lacks and lack a key that defaults has.
C7_Witness ==
  /\ call.op = "get_overridden_keys"
  /\ call.out.keys # {}
  /\ call.out.keys \ Keys(validation_manager.defaults) # {}
  /\ Keys(validation_manager.defaults) \ call.out.keys # {}

\* the step is an iteration of the rule loop that appended results
RuleAppended == pc = "rules" /\ rule_pos <= Len(rules) /\ results' # results

\* C8: a result the rule loop appends for instance X and rule r has
\* is_override true exactly when r is a key of overrides[X], whatever the
\* result (passing, failing, N/A or ERROR); the result is stamped when it is
\* appended and the results before it are left alone.
C8_IsOverrideStamped ==
  [][RuleAppended =>
       /\ Len(results') = Len(results) + 1
       /\ SubSeq(results', 1, Len(results)) = results
       /\ results'[Len(results')].database = db_names[pos]
       /\ results'[Len(results')].is_override
            = (rules[rule_pos].k \in Keys(OverridesOf(db_names[pos])))]_vars

\* C8 witness: one instance has an overridden result that is an ERROR, an
\* overridden N/A result is in the list, and so is a result from a default.
C8_Witness ==
  /\ \E i \in DOMAIN results : results[i].is_override /\ results[i].actual_value = "ERROR"
  /\ \E i \in DOMAIN results : results[i].is_override /\ results[i].actual_value = "N/A"
  /\ \E i \in DOMAIN results : ~results[i].is_override /\ results[i].passed

\* the rule whose value produced a result: the password-validation check is
\* driven by the password_validation rule, any other check by the rule of
\* its own name
RuleOf(result) ==
  IF result.check_name = "PASSWORD_VALIDATION_FUNCTION" THEN "password_validation"
  ELSE Checks[CHOOSE i \in DOMAIN Checks : Checks[i].check_name = result.check_name].name

\* C9: every result in the engine's list, those of the password-validation
\* check included, has is_override true exactly when the rule value that
\* produced it came from the instance's overrides.
C9_IsOverrideEverywhere ==
  \A i \in DOMAIN results :
    results[i].is_override = (RuleOf(results[i]) \in Keys(OverridesOf(results[i].database)))

\* the resolved rules of an instance whose rule loop ran
LoopRan(n) ==
  /\ phase[n] \in {"Completed", "PartiallyCompleted"}
  /\ validation_manager.loaded
  /\ data_source[n].cursor
  /\ GetRules(validation_manager, n).exc = "none"
ResolvedValue(n, key) == Get(GetRules(validation_manager, n).rules, key)
HasResolved(n, key) == LoopRan(n) /\ HasKey(GetRules(validation_manager, n).rules, key)

NotRequiredResult(r, n) ==
  /\ r.database = n
  /\ r.check_name = "MEMORY_TARGET"
  /\ r.passed
  /\ r.actual_value = "N/A"
  /\ r.expected_value = "Not Required"

\* C10 as stated: when the resolved value of a REQUIRED-type check's rule is
\* None for a reachable instance, the run has a passing N/A / Not Required
\* result for that check and instance.
C10_Original ==
  \A n \in DbNames :
    (HasResolved(n, "memory_target_required")
       /\ IsNone(ResolvedValue(n, "memory_target_required")))
    => \E i \in DOMAIN results : NotRequiredResult(results[i], n)

\* C10 as amended: when the resolved value is None the engine skips the rule
\* and the run has no result for that check and instance; when it is False
\* the run has the passing N/A / Not Required result.
C10_NoneSkippedFalseReported ==
  \A n \in DbNames :
    HasResolved(n, "memory_target_required") =>
      /\ IsNone(ResolvedValue(n, "memory_target_required")) =>
           \A i \in DOMAIN results :
             ~(results[i].database = n /\ results[i].check_name = "MEMORY_TARGET")
      /\ IsFalse(ResolvedValue(n, "memory_target_required")) =>
           \E i \in DOMAIN results : NotRequiredResult(results[i], n)

\* C10 witness: the run ended; one instance resolved the rule to None and has
\* results of other checks only, another resolved it to False.
C10_Witness ==
  /\ pc = "returned"
  /\ \E a, b \in DbNames :
       /\ HasResolved(a, "memory_target_required")
       /\ IsNone(ResolvedValue(a, "memory_target_required"))
       /\ \E i \in DOMAIN results : results[i].database = a
       /\ HasResolved(b, "memory_target_required")
       /\ IsFalse(ResolvedValue(b, "memory_target_required"))

\* the step is an iteration of the rule loop on a rule that is not None and
\* whose name has no check in the registry
UnknownRuleStep ==
  /\ pc = "rules"
  /\ rule_pos <= Len(rules)
  /\ ~IsNone(rules[rule_pos].v)
  /\ rules[rule_pos].k \notin RegisteredNames

\* C11: a resolved rule whose name has no check in the registry is skipped:
\* get_check raises KeyError, the iteration appends no result, raises and
\* records no fault, and the loop goes on with the next rule of the instance.
C11_UnknownRuleSkipped ==
  [][UnknownRuleStep =>
       /\ GetCheck(rules[rule_pos].k).exc = "KeyError"
       /\ results' = results
       /\ faulted' = faulted
       /\ pc' = "rules"
       /\ rule_pos' = rule_pos + 1
       /\ rules' = rules]_vars

\* C11 witness: the rule loop of an instance is past a rule without check
\* and past a later rule, whose result is in the list.
C11_Witness ==
  /\ pc = "rules"
  /\ \E i, j \in DOMAIN rules :
       /\ i < j /\ j < rule_pos
       /\ rules[i].k \notin RegisteredNames /\ ~IsNone(rules[i].v)
       /\ rules[j].k \in RegisteredNames
       /\ \E r \in DOMAIN results :
            /\ results[r].database = db_names[pos]
            /\ results[r].check_name = GetCheck(rules[j].k).check.check_name

\* the threshold the claims name: the rule value when it is not None, the
\* static threshold of the check otherwise
ClaimedThreshold ==
  IF call.rule_value # None THEN call.rule_value ELSE call.check.threshold

Executed == call.op = "execute"
ShortCircuited ==
  call.check.validation_type = "REQUIRED" /\ ClaimedThreshold \in {None, BoolV(FALSE)}

\* a fetched whole number that is compared as it is: no normalizer, no
\* transformer, and not taken for a missing value
PlainNumber ==
  /\ call.fetch.kind = "int" /\ call.fetch.val # 0
  /\ call.check.value_normalizer = "" /\ call.transform = ""

\* C12: the effective threshold of execute is the rule value whenever it is
\* not None (False and 0 included) and the static threshold only when it is
\* None; expected_value and the comparison use it.
C12_RuleValueTakesPrecedence ==
  (Executed /\ call.out.exc = "none" /\ ~ShortCircuited) =>
    LET t == ClaimedThreshold
        vt == call.check.validation_type
        r == call.out.result
    IN /\ r.expected_value =
            CASE vt = "REQUIRED" -> (IF Truthy(t) THEN "Set/Enabled" ELSE "Not Required")
              [] vt = "EQUALS" -> Str(t)
              [] vt = "MINIMUM" -> ">= " \o Str(t)
              [] vt = "MAXIMUM" -> "<= " \o Str(t)
       /\ (PlainNumber /\ t.kind = "int") =>
            /\ vt = "MINIMUM" => r.passed = (call.fetch.val >= t.val)
            /\ vt = "MAXIMUM" => r.passed = (call.fetch.val <= t.val)
       /\ (PlainNumber /\ t.kind = "bool") =>
            /\ vt = "MINIMUM" => r.passed = (call.fetch.val >= (IF t.val THEN 1 ELSE 0))
            /\ vt = "MAXIMUM" => r.passed = (call.fetch.val <= (IF t.val THEN 1 ELSE 0))
       /\ (PlainNumber /\ vt = "EQUALS") =>
            r.passed = (Upper(IntToStr(call.fetch.val)) = Upper(Str(t)))

\* C12 witness: a MAXIMUM check of static threshold 1 was executed with the
\* rule value 0 on a fetched 1: it fails against 0 and names 0.
C12_Witness ==
  /\ Executed
  /\ call.check.validation_type = "MAXIMUM" /\ call.check.threshold = IntV(1)
  /\ call.rule_value = IntV(0) /\ call.fetch = IntV(1) /\ call.transform = ""
  /\ ~call.out.result.passed /\ call.out.result.expected_value = "<= 0"

\* C13: a REQUIRED check whose effective threshold is None or False returns
\* passed, 'N/A', 'Not Required', 'Check not required' whatever the data
\* source would answer, a fault included.
C13_NotRequiredShortCircuit ==
  (Executed /\ ShortCircuited) =>
    /\ call.out.exc = "none"
    /\ call.out.result.passed
    /\ call.out.result.actual_value = "N/A"
    /\ call.out.result.expected_value = "Not Required"
    /\ call.out.result.message = "Check not required"

\* C13 witness: a REQUIRED check was executed with the rule value False on a
\* data source that faults, and another with no rule value and no static
\* threshold: this is the state of the first.
C13_Witness ==
  /\ Executed /\ ShortCircuited
  /\ call.rule_value = BoolV(FALSE) /\ call.check.threshold = BoolV(TRUE)
  /\ call.fetch = QueryRaises
  /\ call.out.result.actual_value = "N/A"

\* the data source, the normalizer or the transformer raises in the call
FaultInExecute ==
  \/ call.fetch = QueryRaises
  \/ /\ call.fetch \notin {QueryRaises, NoRow} /\ Truthy(call.fetch)
     /\ \/ call.check.value_normalizer = "raises"
        \/ /\ call.transform = "bytes_to_gb"
           /\ LET v == IF call.check.value_normalizer = "_normalize_boolean"
                         THEN NormalizeBoolean(call.fetch) ELSE call.fetch
              IN v.kind \notin {"int", "bool", "float"}
                   /\ ~(v.kind = "str" /\ ParseInt(v.val).ok)

\* C14: a fault of the fetch, the normalizer or the transformer does not
\* leave execute: the call returns a failing result with actual_value
\* 'ERROR' and a message.
C14_FaultBecomesErrorResult ==
  (Executed /\ ~ShortCircuited /\ FaultInExecute) =>
    /\ call.out.exc = "none"
    /\ ~call.out.result.passed
    /\ call.out.result.actual_value = "ERROR"
    /\ call.out.result.message # ""
    /\ call.out.result.message # call.check.description

\* C14 witness: the transformer raised on a fetched word.
C14_Witness ==
  /\ Executed /\ ~ShortCircuited
  /\ call.fetch = StrV("abc") /\ call.transform = "bytes_to_gb"
  /\ call.check.value_normalizer = ""
  /\ call.out.result.actual_value = "ERROR"

\* a whole-number threshold, given as a number or as its decimal string
NumericThreshold(t) == t.kind = "int" \/ (t.kind = "str" /\ AllDigits(t.val))
ThresholdNumber(t) == IF t.kind = "int" THEN t.val ELSE DigitsToNat(t.val)

\* the call compares the fetched column as it is: no normalizer, no
\* transformer
PlainCall == call.check.value_normalizer = "" /\ call.transform = ""

\* C15: a MINIMUM check with numeric effective threshold t passes iff the
\* fetched number v satisfies v >= t, for every v in 0..MaxNum, so a fetched 0
\* passes against the threshold 0; a value or threshold that is no number
\* gives a failing result and no exception.
C15_MinimumPassesIffAtLeast ==
  (Executed /\ call.check.validation_type = "MINIMUM" /\ PlainCall) =>
    LET t == ClaimedThreshold
    IN /\ call.out.exc = "none"
       /\ (NumericThreshold(t) /\ call.fetch.kind = "int") =>
            call.out.result.passed = (call.fetch.val >= ThresholdNumber(t))
       /\ (call.fetch = StrV("abc") \/ t = StrV("abc")) => ~call.out.result.passed

\* C16: for MINIMUM and MAXIMUM checks the passed flag is the same for the
\* fetched number n and for its string, and the same for a numeric threshold
\* and for its string, for every n and threshold in 0..MaxNum.
C16_RepresentationIndependent ==
  (Executed /\ call.check.validation_type \in {"MINIMUM", "MAXIMUM"} /\ PlainCall
     /\ call.fetch.kind = "int" /\ NumericThreshold(ClaimedThreshold)) =>
    /\ call.out.result.passed
         = ValidationExecute(call.check, StrV(NatToStr(call.fetch.val)), 1,
                             call.rule_value, call.transform).result.passed
    /\ call.rule_value.kind = "int" =>
         call.out.result.passed
           = ValidationExecute(call.check, call.fetch, 1,
                               StrV(NatToStr(call.rule_value.val)),
                               call.transform).result.passed

\* the data source returned no row, or a row whose first column is empty,
\* None or zero
NothingFetched == call.fetch \in {NoRow, None, StrV(""), IntV(0)}

\* C17: a REQUIRED check with a truthy effective threshold fails, with
\* actual_value 'NOT SET', when the query returns no row or a row whose
\* first column is empty, None or zero.
C17_RequiredMissingFails ==
  (Executed /\ call.check.validation_type = "REQUIRED" /\ Truthy(ClaimedThreshold)
     /\ NothingFetched) =>
    /\ call.out.exc = "none"
    /\ call.out.result.actual_value = "NOT SET"
    /\ ~call.out.result.passed

\* C18: an EQUALS check passes iff the upper-cased string of the fetched
\* value, after the check's normalizer, equals the upper-cased string of
\* the effective threshold, for every fetched value: a string that is not
\* empty, or a number.
C18_EqualsIgnoresCase ==
  (Executed /\ call.check.validation_type = "EQUALS" /\ call.transform = ""
     /\ call.check.value_normalizer \in {"", "_normalize_boolean"}
     /\ call.fetch.kind \in {"str", "int"} /\ call.fetch # StrV("")) =>
    LET normalized == IF call.check.value_normalizer = "_normalize_boolean"
                        THEN NormalizeBoolean(call.fetch) ELSE call.fetch
    IN /\ call.out.exc = "none"
       /\ call.out.result.passed = (Upper(Str(normalized)) = Upper(Str(ClaimedThreshold)))

(***************************************************************************)
(* The custom-logic checks (SpecCustom)                                    *)
(***************************************************************************)
CustomExecuted == call.op = "execute"

\* the custom checks that honour the disable switch
HasDisableSwitch(class) ==
  class \in {"DatafilesASMCheck", "RecoveryLogsASMCheck", "RedoLogSizeCheck",
             "ControlFileMultiplexingCheck", "ManagementPackCheck"}

\* execute asked the data source and the data source raised: the first
\* query of the check, or the second query of the PDB check
QueryFaulted ==
  /\ CustomExecuted
  /\ IF call.via = "password"
       THEN /\ call.validation_function # "" /\ call.profiles # <<>>
            /\ call.source.profiles.kind = "raise"
     ELSE IF call.check.class = "SchedulerLogRetentionCheck"
       THEN call.source.scalar.kind = "raise"
     ELSE IF call.check.class = "PDBSaveStateCheck"
       THEN \/ call.source.scalar.kind = "raise"
            \/ call.source.scalar.kind # "norow" /\ call.source.second.kind = "raise"
     ELSE /\ ~(HasDisableSwitch(call.check.class) /\ Disabled(call.rule_value))
          /\ call.source.rows.kind = "raise"

\* the failing ERROR result with a diagnostic message
FailingErrorResult(out) ==
  /\ out.exc = "none"
  /\ ~out.result.passed
  /\ out.result.actual_value = "ERROR"
  /\ out.result.message # ""

RetentionRun(m) ==
  /\ CustomExecuted
  /\ call.via = "rule"
  /\ call.check.class \in {"SchedulerLogRetentionCheck", "JobClassLogRetentionCheck"}
  /\ call.rule_value = IntV(m)

\* the minimums of the rule values the checks are run with
RetentionMinimums == {m \in 0..SchedulerLogMinDays : IntV(m) \in CustomRuleValues}

\* C20: a retention check the engine runs with resolved rule value m uses m
\* as its minimum: the global check passes iff the fetched number of days
\* is >= m and the per-class check passes iff the days of every fetched
\* class are >= m, both name m in expected_value, and the per-class check
\* passes vacuously when there is no job class.
C20_RetentionUsesRuleValue ==
  \A m \in RetentionMinimums :
    RetentionRun(m) =>
      /\ (call.check.class = "SchedulerLogRetentionCheck"
            /\ call.source.scalar.kind \in {"int", "str"}
            /\ Truthy(call.source.scalar) /\ IntOf(call.source.scalar).ok) =>
           /\ call.out.exc = "none"
           /\ call.out.result.passed = (IntOf(call.source.scalar).n >= m)
           /\ call.out.result.expected_value = ">= " \o IntToStr(m) \o " days"
      /\ (call.check.class = "JobClassLogRetentionCheck"
            /\ call.source.rows.kind = "rows"
            /\ \A i \in DOMAIN call.source.rows.val :
                 call.source.rows.val[i][1].kind = "str") =>
           /\ call.out.exc = "none"
           /\ call.source.rows.val = <<>> => call.out.result.passed
           /\ call.source.rows.val # <<>> =>
                /\ call.out.result.passed
                     = (\A i \in DOMAIN call.source.rows.val :
                          JobClassDays(call.source.rows.val[i]) >= m)
                /\ call.out.result.expected_value
                     = "All job classes with log retention >= " \o IntToStr(m) \o " day(s)"

(***************************************************************************)
(* The storage-location checks (SpecCustom)                                *)
(***************************************************************************)
EndsWith(s, suffix) ==
  Len(s) >= Len(suffix) /\ SubSeq(s, Len(s) - Len(suffix) + 1, Len(s)) = suffix

StoragePrefix == IF call.check.class = "DatafilesASMCheck" THEN "+DATA" ELSE "+RECO"

\* an enabled storage-location check has run on rows of paths
StorageRun ==
  /\ CustomExecuted
  /\ call.via = "rule"
  /\ call.check.class \in {"DatafilesASMCheck", "RecoveryLogsASMCheck"}
  /\ ~Disabled(call.rule_value)
  /\ call.source.rows.kind = "rows"
  /\ \A i \in DOMAIN call.source.rows.val : call.source.rows.val[i][1].kind = "str"

FetchedPaths == [i \in DOMAIN call.source.rows.val |-> call.source.rows.val[i][1].val]
Offending == SelectSeq(FetchedPaths, LAMBDA path : ~StartsWith(path, StoragePrefix))

\* the report of a failure: 'k/n in <prefix>, m elsewhere' with k + m = n,
\* and a message that ends with the first 3 offending paths, followed by
\* '+N more' with N = m - 3 when m > 3
StorageFailureReport(result) ==
  LET n == Len(FetchedPaths)
      m == Len(Offending)
      first == Join(", ", [i \in 1..(IF m < 3 THEN m ELSE 3) |-> Offending[i]])
  IN /\ \E k \in 0..n :
          /\ k + m = n
          /\ result.actual_value = IntToStr(k) \o "/" \o IntToStr(n) \o " in " \o StoragePrefix
                                     \o ", " \o IntToStr(m) \o " elsewhere"
     /\ m <= 3 => EndsWith(result.message, ": " \o first)
     /\ m > 3 => EndsWith(result.message,
                          ": " \o first \o "... (+" \o IntToStr(m - 3) \o " more)")

\* C21 as stated: an enabled storage-location check passes iff no fetched
\* path lies outside the required prefix, whatever was fetched, and a
\* failure is reported as 'k/n in <prefix>, m elsewhere' with the first 3
\* offending paths and '+N more'.
C21_Original ==
  StorageRun =>
    /\ call.out.exc = "none"
    /\ call.out.result.passed = (Len(Offending) = 0)
    /\ ~call.out.result.passed => StorageFailureReport(call.out.result)

\* C21: an enabled storage-location check that fetched at least one path
\* passes iff no fetched path lies outside the required prefix; its failure
\* is reported as 'k/n in <prefix>, m elsewhere' with k + m = n and a message
\* listing the first 3 offending paths, followed by '+N more' with N = m - 3
\* when m > 3.  With no path fetched the check fails, with actual_value '0'.
C21_StorageLocation ==
  StorageRun =>
    /\ call.out.exc = "none"
    /\ FetchedPaths # <<>> =>
         /\ call.out.result.passed = (Len(Offending) = 0)
         /\ ~call.out.result.passed => StorageFailureReport(call.out.result)
    /\ FetchedPaths = <<>> =>
         ~call.out.result.passed /\ call.out.result.actual_value = "0"

\* a storage-location check has failed on more than 3 offending paths
C21_Witness ==
  /\ StorageRun
  /\ Len(Offending) > 3
  /\ ~call.out.result.passed

(***************************************************************************)
(* The scheduled-task check (SpecCustom)                                   *)
(***************************************************************************)
\* the scheduler-jobs status check has run on rows (job_name, enabled)
SchedulerJobsRun ==
  /\ CustomExecuted
  /\ call.via = "rule"
  /\ call.check.class = "SchedulerJobsStatusCheck"
  /\ call.source.rows.kind = "rows"
  /\ \A i \in DOMAIN call.source.rows.val :
       call.source.rows.val[i][1].kind = "str" /\ call.source.rows.val[i][2].kind = "str"

\* the fetched tasks that are disabled, and those of them that are critical
DisabledTasks == SelectSeq(call.source.rows.val, LAMBDA row : row[2].val # "TRUE")
CriticalDisabledTasks ==
  SelectSeq(DisabledTasks, LAMBDA row : \/ Contains(Lower(row[1].val), "purge")
                                        \/ Contains(Lower(row[1].val), "cleanup"))

\* C22: the scheduled-task check passes iff no disabled task has a name
\* containing 'purge' or 'cleanup' in any case, however many other tasks
\* are disabled, and for no rule value, False included, does it return the
\* N/A result of a disabled check.
C22_CriticalTasksOnly ==
  SchedulerJobsRun =>
    /\ call.out.exc = "none"
    /\ call.out.result.passed = (CriticalDisabledTasks = <<>>)
    /\ call.out.result # DisabledResult(call.check, 1)
    /\ call.out.result.actual_value # "N/A"

\* the check has passed with the rule value False although every fetched
\* task is disabled, none of them critical
C22_Witness ==
  /\ SchedulerJobsRun
  /\ call.rule_value = BoolV(FALSE)
  /\ DisabledTasks = call.source.rows.val
  /\ DisabledTasks # <<>>
  /\ call.out.result.passed

\* the check has failed on a disabled task named in upper case although
\* another task is enabled
C22_WitnessFailing ==
  /\ SchedulerJobsRun
  /\ Len(CriticalDisabledTasks) = 1
  /\ Len(DisabledTasks) < Len(call.source.rows.val)
  /\ ~call.out.result.passed

(***************************************************************************)
(* OracleHealthCheck.print_results: the summary lines (SpecSummary)        *)
(***************************************************************************)
\* the longest result list the summary is computed on
MaxResults == 5

\* int(passed / total * 100): the truncated float quotient, which for the
\* totals of the model is the integer quotient
PassedPct(counts) ==
  IF counts.total > 0 THEN (counts.passed * 100) \div counts.total ELSE 0

\* mutant: DEGRADED only when more than half of the results passed
StatusText_moreThanHalf(counts) ==
  IF counts.failed = 0 THEN "HEALTHY"
  ELSE IF 2 * counts.passed > counts.total THEN "DEGRADED"
  ELSE "UNHEALTHY"

\* the health label of one summary line (lines 795-803)
StatusText(counts) ==
  IF counts.failed = 0 THEN "HEALTHY"
  ELSE IF counts.failed <= counts.total \div 2 THEN "DEGRADED"
  ELSE "UNHEALTHY"

\* the summary lines print_results prints, one per instance of get_summary
SummaryLines(rs) ==
  [n \in DOMAIN GetSummary(rs) |->
     [counts |-> GetSummary(rs)[n],
      passed_pct |-> PassedPct(GetSummary(rs)[n]),
      status_text |-> StatusText(GetSummary(rs)[n])]]

\* the result lists a run can leave behind: results of the instances, passed
\* or failed, in any number up to MaxResults
SummaryResults ==
  UNION { [1..k -> { CreateResult(Checks[1], n, passed, "v", "v", "") :
                       n \in DbNames, passed \in BOOLEAN }] : k \in 0..MaxResults }

InitSummary ==
  /\ inventory = [loaded |-> FALSE, names |-> {}]
  /\ data_source = [n \in DbNames |-> Unreachable]
  /\ validation_manager = [loaded |-> FALSE, defaults |-> <<>>, overrides |-> <<>>]
  /\ pc = "returned"
  /\ databases = [given |-> FALSE, names |-> {}]
  /\ results \in SummaryResults
  /\ returned = results
  /\ db_names = <<>>
  /\ pos = 0
  /\ conn = NoConn
  /\ pool = {}
  /\ rules = <<>>
  /\ overridden_keys = {}
  /\ rule_pos = 0
  /\ phase = [n \in DbNames |-> "NotStarted"]
  /\ faulted = FALSE
  /\ call = [op |-> "pending", out |-> <<>>]

\* print_results(): the summary part; self.results is left alone
PrintResults ==
  /\ call.op = "pending"
  /\ call' = [op |-> "print_results", out |-> SummaryLines(results)]
  /\ UNCHANGED <<config, pc, databases, results, returned, db_names, pos, conn, pool, rules,
                 overridden_keys, rule_pos, phase, faulted>>

NextSummary == PrintResults

SpecSummary == InitSummary /\ [][NextSummary]_vars

\* the number of results of instance n in the list, and of those that passed
TotalOf(rs, n) == Cardinality({i \in DOMAIN rs : rs[i].database = n})
PassedOf(rs, n) == Cardinality({i \in DOMAIN rs : rs[i].database = n /\ rs[i].passed})

\* the summary has a line for exactly the instances with a result, with
\* passed + failed = total, and HEALTHY iff all results passed
SummaryCounts(line, n) ==
  /\ line.counts.total = TotalOf(results, n)
  /\ line.counts.passed = PassedOf(results, n)
  /\ line.counts.passed + line.counts.failed = line.counts.total
  /\ line.status_text \in {"HEALTHY", "DEGRADED", "UNHEALTHY"}
  /\ line.status_text = "HEALTHY" <=> line.counts.passed = line.counts.total

\* C23 as stated: passed + failed = total, HEALTHY iff all passed, DEGRADED
\* iff not all passed and more than half passed, UNHEALTHY otherwise.
C23_Original ==
  call.op = "print_results" =>
    /\ DOMAIN call.out = {n \in DbNames : TotalOf(results, n) > 0}
    /\ \A n \in DOMAIN call.out :
         /\ SummaryCounts(call.out[n], n)
         /\ call.out[n].status_text = "DEGRADED"
              <=> /\ PassedOf(results, n) < TotalOf(results, n)
                  /\ 2 * PassedOf(results, n) > TotalOf(results, n)

\* C23: for each instance with at least one result the summary has
\* passed + failed = total, and the label is HEALTHY iff all results passed,
\* DEGRADED iff not all passed and at least half of the results passed
\* (failed <= total // 2), and UNHEALTHY otherwise: total 2 with 1 passed is
\* DEGRADED.
C23_HealthLabel ==
  call.op = "print_results" =>
    /\ DOMAIN call.out = {n \in DbNames : TotalOf(results, n) > 0}
    /\ \A n \in DOMAIN call.out :
         /\ SummaryCounts(call.out[n], n)
         /\ call.out[n].status_text = "DEGRADED"
              <=> /\ PassedOf(results, n) < TotalOf(results, n)
                  /\ 2 * PassedOf(results, n) >= TotalOf(results, n)

\* an instance with 2 results, 1 of them passed, has its summary line
C23_Witness ==
  /\ call.op = "print_results"
  /\ \E n \in DOMAIN call.out :
       /\ TotalOf(results, n) = 2
       /\ PassedOf(results, n) = 1
       /\ call.out[n].status_text = "DEGRADED"

(***************************************************************************)
(* Loading the rule document and the inventory (SpecLoad)                  *)
(***************************************************************************)
\* the overrides section of a document: a dict keyed by instance name
OverridesV(o) == [kind |-> "overrides", val |-> o]

\* mutant: the loader accepts every document
LoadYaml_lenient(document) ==
  [exc |-> "none", data |-> [defaults |-> DictV(<<>>), overrides |-> OverridesV(<<>>)]]

\* ValidationManager._load_yaml; document is [file, data]: the file is
\* missing, is no YAML, or parses to data.  `"defaults" not in rules` raises
\* TypeError on a validation_rules section that is empty (None)
LoadYaml(document) ==
  LET no_data == [defaults |-> None, overrides |-> None]
  IN IF document.file = "missing" THEN [exc |-> "FileNotFoundError", data |-> no_data]
     ELSE IF document.file = "invalid" THEN [exc |-> "ValueError", data |-> no_data]
     ELSE IF ~Truthy(document.data) \/ ~HasKey(document.data.val, "validation_rules")
       THEN [exc |-> "ValueError", data |-> no_data]
     ELSE LET rules_section == Get(document.data.val, "validation_rules")
          IN IF rules_section.kind # "dict" THEN [exc |-> "TypeError", data |-> no_data]
             ELSE IF ~HasKey(rules_section.val, "defaults")
               THEN [exc |-> "ValueError", data |-> no_data]
             ELSE [exc |-> "none",
                   data |-> [defaults |-> GetOr(rules_section.val, "defaults", DictV(<<>>)),
                             overrides |-> GetOr(rules_section.val, "overrides",
                                                 OverridesV(<<>>))]]

\* the resolver over loaded data whose sections are dicts
LoadedManager(data) ==
  [loaded |-> TRUE, defaults |-> data.defaults.val, overrides |-> data.overrides.val]

\* get_rules on loaded data: dict(None) and `name in None` raise TypeError
DataGetRules(data, database_name) ==
  IF data.defaults.kind # "dict" \/ data.overrides.kind # "overrides"
    THEN [exc |-> "TypeError", rules |-> <<>>]
    ELSE GetRules(LoadedManager(data), database_name)

\* get_overridden_keys on loaded data
DataGetOverriddenKeys(data, database_name) ==
  IF data.overrides.kind # "overrides"
    THEN [exc |-> "TypeError", keys |-> {}]
  ELSE IF data.defaults.kind # "dict"
    THEN GetOverriddenKeys([loaded |-> TRUE, defaults |-> <<>>,
                            overrides |-> data.overrides.val], database_name)
  ELSE GetOverriddenKeys(LoadedManager(data), database_name)

\* the validation_rules sections of the documents: empty, without defaults,
\* with defaults (a dict or empty), with and without overrides (a dict keyed
\* by instance name, or empty)
RulesSections ==
  {None, DictV(<<>>), DictV(<< Item("overrides", OverridesV(<<>>)) >>)}
  \cup { DictV(<< Item("defaults", d) >>) :
           d \in {None} \cup {DictV(x) : x \in ResolverDicts} }
  \cup { DictV(<< Item("defaults", d), Item("overrides", o) >>) :
           d \in {None} \cup {DictV(x) : x \in EngineDefaults},
           o \in {None} \cup {OverridesV(x) : x \in EngineOverrides} }

\* the rule documents: missing, no YAML, empty, without the top-level
\* section, and with each of the sections
RuleDocuments ==
  { [file |-> "missing", data |-> None], [file |-> "invalid", data |-> None] }
  \cup { [file |-> "ok", data |-> d] :
           d \in {None, DictV(<<>>), DictV(<< Item("databases", ListV(<<>>)) >>)} }
  \cup { [file |-> "ok", data |-> DictV(<< Item("validation_rules", s) >>)] :
           s \in RulesSections }

ResolverLoads ==
  { [op |-> "pending", via |-> "resolver", document |-> document,
     database_name |-> database_name,
     out |-> [exc |-> "pending"]] :
      document \in RuleDocuments, database_name \in ResolverNames }

\* ValidationManager(yaml_path), then get_rules(database_name) and
\* get_overridden_keys(database_name) on the resolver when there is one
NewValidationManager ==
  /\ call.op = "pending"
  /\ call.via = "resolver"
  /\ LET l == LoadYaml(call.document)
     IN call' = [call EXCEPT
                   !.op = "ValidationManager",
                   !.out = IF l.exc # "none"
                             THEN [exc |-> l.exc, resolver |-> FALSE]
                             ELSE [exc |-> "none", resolver |-> TRUE, data |-> l.data,
                                   rules |-> DataGetRules(l.data, call.database_name),
                                   keys |-> DataGetOverriddenKeys(l.data,
                                                                  call.database_name)]]
  /\ UNCHANGED <<config, pc, databases, results, returned, db_names, pos, conn, pool, rules,
                 overridden_keys, rule_pos, phase, faulted>>

\* the document _create_default_validation_rules writes: the overrides key
\* and the FREE entry are indented under defaults
DefaultDocument ==
  DictV(<< Item("validation_rules", DictV(<< Item("defaults", DictV(<<
    Item("sga_target_min_gb", IntV(8)),
    Item("sga_max_size_required", BoolV(TRUE)),
    Item("dism_enabled", BoolV(TRUE)),
    Item("pga_aggregate_target_required", BoolV(TRUE)),
    Item("pga_aggregate_limit_required", BoolV(TRUE)),
    Item("memory_target_required", BoolV(FALSE)),
    Item("flashback_enabled", BoolV(TRUE)),
    Item("unified_auditing_enabled", BoolV(TRUE)),
    Item("open_dblinks_max", IntV(32)),
    Item("jobs_enabled_min", IntV(1)),
    Item("job_queue_processes_min", IntV(50)),
    Item("scheduler_log_retention_days", IntV(30)),
    Item("job_class_log_retention_days", IntV(1)),
    Item("overrides", None),
    Item("FREE", DictV(<<
      Item("sga_target_min_gb", IntV(1)),
      Item("memory_target_required", BoolV(FALSE)),
      Item("flashback_enabled", BoolV(FALSE)),
      Item("unified_auditing_enabled", BoolV(FALSE)),
      Item("job_queue_processes_min", IntV(4)),
      Item("jobs_enabled_min", IntV(0)),
      Item("scheduler_log_retention_days", IntV(7)),
      Item("job_class_log_retention_days", IntV(0)) >>)) >>)) >>)) >>)

\* mutant: _load_validation_rules has no except clause
CaughtOnLoad_nothing(exc) == FALSE

\* `except (FileNotFoundError, ValueError)` of _load_validation_rules
CaughtOnLoad(exc) == exc \in {"FileNotFoundError", "ValueError"}

\* OracleHealthCheck._load_validation_rules: a missing file is first
\* replaced by the default document when the path can be written
LoadValidationRules(document, writable) ==
  LET no_manager == [exc |-> "none", manager |-> FALSE,
                     data |-> [defaults |-> None, overrides |-> None]]
      l == LoadYaml(IF document.file = "missing"
                      THEN [file |-> "ok", data |-> DefaultDocument] ELSE document)
  IN IF document.file = "missing" /\ ~writable THEN no_manager
     ELSE IF l.exc = "none" THEN [exc |-> "none", manager |-> TRUE, data |-> l.data]
     ELSE IF CaughtOnLoad(l.exc) THEN no_manager
     ELSE [exc |-> l.exc, manager |-> FALSE, data |-> no_manager.data]

\* OracleHealthCheck.__init__: a failure of Inventory() is caught and logged;
\* inventory_document is "ok", "missing" or "malformed"
NewEngine(inventory_document, document, writable) ==
  LET m == LoadValidationRules(document, writable)
  IN [exc |-> m.exc, inventory |-> inventory_document = "ok", manager |-> m.manager,
      data |-> m.data]

InventoryDocuments == {"ok", "missing", "malformed"}

EngineLoads ==
  { [op |-> "pending", via |-> "engine", document |-> document,
     inventory_document |-> inventory_document, writable |-> writable,
     out |-> [exc |-> "pending"]] :
      document \in RuleDocuments, inventory_document \in InventoryDocuments,
      writable \in BOOLEAN }

InitLoad ==
  /\ inventory = [loaded |-> FALSE, names |-> {}]
  /\ data_source = [n \in DbNames |-> Unreachable]
  /\ validation_manager = [loaded |-> FALSE, defaults |-> <<>>, overrides |-> <<>>]
  /\ EngineIdle
  /\ call \in ResolverLoads \cup EngineLoads

\* OracleHealthCheck(validation_rules_path)
NewOracleHealthCheck ==
  /\ call.op = "pending"
  /\ call.via = "engine"
  /\ call' = [call EXCEPT !.op = "OracleHealthCheck",
                          !.out = NewEngine(call.inventory_document, call.document,
                                            call.writable)]
  /\ UNCHANGED <<config, pc, databases, results, returned, db_names, pos, conn, pool, rules,
                 overridden_keys, rule_pos, phase, faulted>>

\* run_all_checks() on a constructed engine without inventory (it returns
\* [] at once, lines 312-314) or without validation manager (_execute_checks
\* returns at once for every instance, lines 357-362)
RunAllChecksUnloaded ==
  /\ call.op = "OracleHealthCheck"
  /\ call.out.exc = "none"
  /\ ~call.out.inventory \/ ~call.out.manager
  /\ pc = "idle"
  /\ call' = [call EXCEPT !.op = "run_all_checks"]
  /\ pc' = "returned"
  /\ results' = <<>>
  /\ returned' = <<>>
  /\ UNCHANGED <<config, databases, db_names, pos, conn, pool, rules, overridden_keys,
                 rule_pos, phase, faulted>>

NextLoad == NewValidationManager \/ NewOracleHealthCheck \/ RunAllChecksUnloaded

SpecLoad == InitLoad /\ [][NextLoad]_vars

\* the document has a validation_rules section with a defaults subsection
HasDefaults(document) ==
  /\ document.file = "ok"
  /\ document.data.kind = "dict"
  /\ HasKey(document.data.val, "validation_rules")
  /\ Get(document.data.val, "validation_rules").kind = "dict"
  /\ HasKey(Get(document.data.val, "validation_rules").val, "defaults")
DefaultsOf(document) == Get(Get(document.data.val, "validation_rules").val, "defaults")
HasOverrides(document) ==
  HasDefaults(document) /\ HasKey(Get(document.data.val, "validation_rules").val, "overrides")

ResolverBuilt == call.op = "ValidationManager"

\* C24 as stated: a document without the validation_rules section or its
\* defaults subsection fails to load and yields no resolver; a document with
\* defaults and no overrides section loads and resolves every instance to
\* exactly the defaults, with no overridden key.
C24_Original ==
  ResolverBuilt =>
    /\ (call.document.file = "ok" /\ ~HasDefaults(call.document)) =>
         call.out.exc # "none" /\ ~call.out.resolver
    /\ (HasDefaults(call.document) /\ ~HasOverrides(call.document)) =>
         /\ call.out.exc = "none" /\ call.out.resolver
         /\ call.out.rules.exc = "none"
         /\ DictV(call.out.rules.rules) = DefaultsOf(call.document)
         /\ call.out.keys = [exc |-> "none", keys |-> {}]

\* C24: a document without the validation_rules section or its defaults
\* subsection fails to load with ValueError (TypeError when the
\* validation_rules section is empty) and yields no resolver; a document
\* with defaults and no overrides section loads, has no overridden key for
\* any instance, and resolves every instance to exactly the defaults when
\* the defaults are a mapping; when the defaults subsection is empty the
\* load succeeds and get_rules raises TypeError.
C24_LoadValidation ==
  ResolverBuilt =>
    /\ (call.document.file = "ok" /\ ~HasDefaults(call.document)) =>
         /\ ~call.out.resolver
         /\ call.out.exc
              = IF /\ call.document.data.kind = "dict"
                   /\ HasKey(call.document.data.val, "validation_rules")
                   /\ IsNone(Get(call.document.data.val, "validation_rules"))
                  THEN "TypeError" ELSE "ValueError"
    /\ (HasDefaults(call.document) /\ ~HasOverrides(call.document)) =>
         /\ call.out.exc = "none" /\ call.out.resolver
         /\ call.out.keys = [exc |-> "none", keys |-> {}]
         /\ DefaultsOf(call.document).kind = "dict" =>
              /\ call.out.rules.exc = "none"
              /\ DictV(call.out.rules.rules) = DefaultsOf(call.document)
         /\ IsNone(DefaultsOf(call.document)) => call.out.rules.exc = "TypeError"

\* a document with two default rules and no overrides section has been
\* loaded and resolved
C24_Witness ==
  /\ ResolverBuilt
  /\ HasDefaults(call.document) /\ ~HasOverrides(call.document)
  /\ DefaultsOf(call.document).kind = "dict"
  /\ Len(DefaultsOf(call.document).val) = 2
  /\ call.out.rules.exc = "none"
  /\ Len(call.out.rules.rules) = 2

\* a document without defaults has been refused
C24_WitnessRefused ==
  /\ ResolverBuilt
  /\ call.document.file = "ok" /\ ~HasDefaults(call.document)
  /\ call.document.data.kind = "dict"
  /\ HasKey(call.document.data.val, "validation_rules")
  /\ call.out.exc = "ValueError"

\* the rule document or the inventory document of the engine under
\* construction is missing or malformed
EngineBuilt == call.via = "engine" /\ call.op \in {"OracleHealthCheck", "run_all_checks"}
BadRuleDocument(document) == ~HasDefaults(document)
BadInventoryDocument(inventory_document) == inventory_document # "ok"
BadDocuments ==
  BadRuleDocument(call.document) \/ BadInventoryDocument(call.inventory_document)

C25_WitnessInventory ==
  /\ call.via = "engine"
  /\ call.op = "run_all_checks"
  /\ call.inventory_document = "missing"
  /\ ~call.out.inventory
  /\ pc = "returned"

\* the engine is inside the processing of the instance db_names[pos]
InInstance == pc \in {"connected", "rules", "finally"}

\* C26: at most one handle is acquired and not yet released at any time; a
\* held handle is the one of the instance being processed, on which its
\* checks run one after another; a handle is acquired only when none is
\* held, and the instances are processed one after another in list order.
C26_OneHandleAtATime ==
  /\ [](Cardinality(pool) <= 1)
  /\ [](pool # {} => InInstance /\ pool = {db_names[pos]} /\ conn = db_names[pos])
  /\ [](pc = "rules" => pool = {db_names[pos]})
  /\ [][(pool' \ pool # {}) => (pool = {} /\ pc = "loop")]_vars
  /\ [][pos' # pos => (pos' = pos + 1 /\ pool' = {})]_vars

\* C26 witness: the second instance is executing its rules on its own handle
\* after the first instance's handle was acquired and released
C26_Witness ==
  /\ pc = "rules"
  /\ pos = 2
  /\ rule_pos > 1
  /\ pool = {db_names[2]}
  /\ phase[db_names[1]] \in {"Completed", "PartiallyCompleted"}

\* old is an initial segment of new
IsPrefix(old, new) == Len(old) <= Len(new) /\ SubSeq(new, 1, Len(old)) = old

\* the results a step has added at the end of the list
AddedBy(old, new) == SubSeq(new, Len(old) + 1, Len(new))

\* r is what the check of the current rule returned, but for is_override
ReturnedByRule(r) ==
  LET db == db_names[pos]
      rule == rules[rule_pos]
      out == ExecuteCheck(GetCheck(rule.k).check, data_source[db], db, rule.v)
  IN /\ GetCheck(rule.k).exc = "none"
     /\ out.exc = "none"
     /\ [r EXCEPT !.is_override = out.result.is_override] = out.result

\* r is what the password check returned for one of the configurations
ReturnedByPasswordCheck(r) ==
  LET db == db_names[pos]
      c == GetPasswordValidationConfig(validation_manager, db)
      g == GetCheck("password_validation_function")
  IN /\ c.exc = "none"
     /\ g.exc = "none"
     /\ \E i \in DOMAIN c.configs :
          r = PasswordExecute(g.check, data_source[db].profiles, db,
                              GetOr(c.configs[i].val, "validation_function", StrV("")).val,
                              GetOr(c.configs[i].val, "profiles", ListV(<<>>)).val).result

\* C27: within one run every step of the engine leaves the results already
\* in the list where and as they are and only adds results at the end; a
\* result added by the rule loop is the result its check returned with at
\* most is_override changed, and a result added by the password-validation
\* step is the result the check returned.
C27_AppendOnly ==
  [][/\ IsPrefix(results, results')
     /\ \A i \in DOMAIN AddedBy(results, results') :
          IF rule_pos <= Len(rules)
            THEN ReturnedByRule(AddedBy(results, results')[i])
            ELSE ReturnedByPasswordCheck(AddedBy(results, results')[i])]_vars

\* C27 witness: the run ended after a fault was swallowed, with at least
\* three results of which one carries the override flag and the last one
\* comes from the password-validation step
C27_Witness ==
  /\ pc = "returned"
  /\ Len(results) >= 3
  /\ \E i \in DOMAIN results : results[i].is_override
  /\ \E n \in DbNames : phase[n] = "PartiallyCompleted"
  /\ results[Len(results)].check_name
       = GetCheck("password_validation_function").check.check_name

\* the resolved rules of instance n, and the positions of those whose
\* execute raises
RulesOf(n) == GetRules(validation_manager, n).rules
FaultingRules(n) ==
  { i \in DOMAIN RulesOf(n) :
      RuleFaulted(RulesOf(n)[i].k, RulesOf(n)[i].v, data_source[n], n) }

\* the rule loop of instance n is entered: its handle and cursor were
\* obtained and its rules resolved
EntersRuleLoop(n) ==
  /\ validation_manager.loaded
  /\ data_source[n].connect
  /\ data_source[n].cursor
  /\ GetRules(validation_manager, n).exc = "none"
  /\ GetOverriddenKeys(validation_manager, n).exc = "none"

\* what the rules at the positions of I append for instance n, in rule order
RECURSIVE ResultsOfRules(_, _, _)
ResultsOfRules(n, I, from) ==
  IF from > Len(RulesOf(n)) THEN <<>>
  ELSE (IF from \in I
          THEN LET rule == RulesOf(n)[from]
                   out == ExecuteCheck(GetCheck(rule.k).check, data_source[n], n, rule.v)
               IN << [out.result EXCEPT
                        !.is_override = rule.k \in GetOverriddenKeys(validation_manager, n).keys] >>
          ELSE <<>>)
       \o ResultsOfRules(n, I, from + 1)

\* the rules of instance n that are enabled, registered and whose execute
\* returns
ReturningRules(n) ==
  { i \in DOMAIN RulesOf(n) :
      /\ ~IsNone(RulesOf(n)[i].v)
      /\ GetCheck(RulesOf(n)[i].k).exc = "none"
      /\ i \notin FaultingRules(n) }

ResultsFor(n) == SelectSeq(results, LAMBDA r : r.database = n)

\* C28: the step of the rule loop on a rule whose execute raises appends
\* nothing, keeps the results, and goes on with the next rule of the same
\* instance; when the instance is done its results are those of every rule
\* whose execute returned, before and after the faulting ones, followed by
\* those of the password-validation step.
C28_ExecuteFaultSwallowed ==
  /\ [][(/\ pc = "rules"
         /\ rule_pos <= Len(rules)
         /\ RuleFaulted(rules[rule_pos].k, rules[rule_pos].v,
                        data_source[db_names[pos]], db_names[pos]))
        => /\ results' = results
           /\ pc' = "rules"
           /\ rule_pos' = rule_pos + 1
           /\ pos' = pos
           /\ rules' = rules]_vars
  /\ [](\A n \in DbNames :
          (/\ phase[n] \in {"Completed", "PartiallyCompleted"}
           /\ EntersRuleLoop(n)
           /\ FaultingRules(n) # {})
          => ResultsFor(n)
               = ResultsOfRules(n, ReturningRules(n), 1)
                 \o PasswordValidationStep(validation_manager, data_source[n], n))

\* C28 witness: an instance is done whose rule list has a rule that raised
\* between two rules that returned a result, and that has a result of the
\* password-validation step
C28_Witness ==
  \E n \in DbNames :
    /\ phase[n] = "PartiallyCompleted"
    /\ EntersRuleLoop(n)
    /\ \E i \in FaultingRules(n) :
         /\ \E j \in ReturningRules(n) : j < i
         /\ \E j \in ReturningRules(n) : j > i
    /\ PasswordValidationStep(validation_manager, data_source[n], n) # <<>>
    /\ Len(ResultsFor(n)) >= 3

\* the instances the most recent call lists: the inventory in name order,
\* restricted to the caller's filter when one is given
ListedBy(arg) ==
  IF arg.given /\ arg.names # {}
    THEN SelectSeq(Sorted(inventory.names), LAMBDA n : n \in arg.names)
    ELSE Sorted(inventory.names)

\* what one call with the argument arg produces on a fresh engine
FreshRunResults(arg) ==
  IF ~inventory.loaded THEN <<>>
  ELSE RunResults(SelectSeq(ListedBy(arg), LAMBDA n : data_source[n].connect))

\* C29: after any sequence of calls of run_all_checks, when the most recent
\* call has returned, the engine's result list equals the list that call
\* returned and is what that call alone produces; every call starts from an
\* empty list, so that no result of an earlier call is in it at any time.
C29_NoAccumulation ==
  /\ [](pc = "returned" => results = returned /\ results = FreshRunResults(databases))
  /\ [][(pc \in {"idle", "returned"} /\ pc' # pc) => results' = <<>>]_vars
  /\ [](pc \notin {"idle", "returned"} =>
          \A i \in DOMAIN results : results[i].database \in Listed)

\* C29 witness: a call restricted to instance 1 has returned its results
\* after an earlier call that had produced results for instance 2
C29_Witness ==
  /\ pc = "returned"
  /\ databases.given
  /\ db_names = <<1>>
  /\ results # <<>>
  /\ phase[2] \in {"Completed", "PartiallyCompleted"}
  /\ InstanceResults(2) # <<>>
  /\ \A i \in DOMAIN results : results[i].database = 1

\* r was appended by the password-validation step
IsPasswordResult(r) ==
  r.check_name = GetCheck("password_validation_function").check.check_name

\* C30: the instances attempted are those of the inventory (and of the
\* caller's filter when one is given), taken in ascending name order; the
\* instance names of the results never decrease along the list, so that the
\* results of one instance are contiguous and none follows a result of a
\* later instance; within an instance no rule-loop result follows a
\* password-validation result; and every result belongs to an instance the
\* loop has reached.
C30_InstanceOrder ==
  /\ \A i, j \in DOMAIN db_names : i < j => db_names[i] < db_names[j]
  /\ Listed \subseteq inventory.names
  /\ (databases.given /\ databases.names # {}) => Listed \subseteq databases.names
  /\ \A n \in DbNames : Attempted(n) =>
       \E i \in DOMAIN db_names : db_names[i] = n /\ i <= pos
  /\ \A i, j \in DOMAIN results : i < j =>
       /\ results[i].database <= results[j].database
       /\ (results[i].database = results[j].database /\ IsPasswordResult(results[i]))
            => IsPasswordResult(results[j])
  /\ \A i \in DOMAIN results :
       \E k \in DOMAIN db_names : db_names[k] = results[i].database /\ k <= pos

\* C30 witness: the run over two instances ended; each has a rule-loop
\* result and a password-validation result
C30_Witness ==
  /\ pc = "returned"
  /\ Len(db_names) >= 2
  /\ \A k \in 1..2 :
       /\ \E i \in DOMAIN results :
            results[i].database = db_names[k] /\ IsPasswordResult(results[i])
       /\ \E i \in DOMAIN results :
            results[i].database = db_names[k] /\ ~IsPasswordResult(results[i])

====
